---- MODULE Spec2Model ----
(***************************************************************************)
(* repogrep: the incremental indexing pipeline (indexRepository), the      *)
(* metadata/text store (file_meta, file_fts, repo_index in SQLite), the    *)
(* vector store (the LanceDB table "files") and the CLI wrapper.           *)
(*                                                                         *)
(* One CLI invocation runs at a time.  A run is modelled await by await:   *)
(* the glob and the SELECT of existing records, one step per scanned file, *)
(* the synchronous SQLite transaction, one step per vector-store call and  *)
(* the registry upsert.  Every await may throw; nothing in indexRepository *)
(* catches, so a throw ends the run and reaches wrapAction.                *)
(* The working tree is edited only between runs.  The locals of a finished *)
(* call stay readable until the next command.                              *)
(*                                                                         *)
(* Search (search.ts) is a second specification, SearchSpec, over an index *)
(* that two runs have built: the lazily opened store handle of db.ts, the  *)
(* keyword and the semantic sub-search, await by await, and the fusion of  *)
(* hybridSearch.  NormalizeSpec applies the two score normalizers to the   *)
(* numbers JavaScript has.                                                 *)
(***************************************************************************)
EXTENDS Integers, Sequences, FiniteSets, Bags, TLC

\* ------------------------------------------------------------------ bounds
\* tree edits and CLI invocations, together
MaxCommands == 4

\* ------------------------------------------------------- program constants
SAMPLE_BYTES == 1024
VECTOR_ID_SEPARATOR == ":"

NULL == "<null>"
\* no file at a path, no row for a key, no summary yet
ABSENT == [absent |-> TRUE]
UNREGISTERED == "<no row>"

\* Repository names (options.repo is free text) and relative paths.
Repos == {"app", "app:src"}
Paths == {"src:x/a.ts", "x/a.ts"}
\* the order in which the glob lists the candidates
ListingOrder == <<"src:x/a.ts", "x/a.ts">>
RemoteUrl == "https://example.com/app.git"

\* A file on disk: its first bytes up to the 64 KiB cap (prefix), what lies
\* beyond the cap (rest, "" when the file is shorter) and what stat reports.
FileVersions ==
  { [prefix |-> <<102, 110>>, rest |-> "",  mtimeMs |-> 11, size |-> 2],
    [prefix |-> <<102, 110>>, rest |-> "z", mtimeMs |-> 12, size |-> 3],
    [prefix |-> <<105, 102>>, rest |-> "",  mtimeMs |-> 13, size |-> 2],
    [prefix |-> <<137, 80, 0>>, rest |-> "", mtimeMs |-> 14, size |-> 3] }

TextFile == [prefix |-> <<102, 110>>, rest |-> "", mtimeMs |-> 11, size |-> 2]
BinaryFile == [prefix |-> <<137, 80, 0>>, rest |-> "", mtimeMs |-> 14, size |-> 3]

\* the trees the first run may find
InitialTrees ==
  { [p \in Paths |-> IF p = "x/a.ts" THEN TextFile ELSE BinaryFile],
    [p \in Paths |-> IF p = "x/a.ts" THEN TextFile ELSE ABSENT],
    [p \in Paths |-> TextFile] }

\* ------------------------------------------------------------ pure helpers
Min(a, b) == IF a < b THEN a ELSE b

RECURSIVE FilterSeq(_, _)
FilterSeq(s, S) ==
  IF s = <<>> THEN <<>>
  ELSE (IF Head(s) \in S THEN <<Head(s)>> ELSE <<>>) \o FilterSeq(Tail(s), S)

\* variant of the hash: computed over the capped prefix only
hashBuffer_CappedPrefix(buffer) == <<"sha256", buffer.prefix, "">>

\* sha256 over the whole buffer, taken as collision-free
hashBuffer(buffer) == <<"sha256", buffer.prefix, buffer.rest>>

getFilename(relativeFilePath) ==
  CASE relativeFilePath = "src:x/a.ts" -> "a.ts"
    [] relativeFilePath = "x/a.ts" -> "a.ts"

\* the loop's count, summed over the two halves of the sample so that a
\* sample of 1024 bytes is counted with shallow recursion
RECURSIVE CountSuspicious(_)
CountSuspicious(sample) ==
  IF sample = <<>> THEN 0
  ELSE IF Len(sample) = 1
    THEN LET byte == sample[1] IN
         IF byte < 7 \/ (byte > 13 /\ byte < 32) \/ byte = 255 THEN 1 ELSE 0
    ELSE LET half == Len(sample) \div 2 IN
         CountSuspicious(SubSeq(sample, 1, half))
           + CountSuspicious(SubSeq(sample, half + 1, Len(sample)))

\* variant of the sniffing: a sample of one byte
isBinaryBuffer_SampleOfOne(buffer) ==
  IF Len(buffer) = 0 THEN FALSE
  ELSE LET sample == SubSeq(buffer, 1, Min(Len(buffer), 1)) IN
       \/ \E k \in 1..Len(sample) : sample[k] = 0
       \/ CountSuspicious(sample) * 10 > 3 * Len(sample)

\* variant of the sniffing: a file is binary from 30% suspicious bytes on
isBinaryBuffer_FromThirtyPercent(buffer) ==
  IF Len(buffer) = 0 THEN FALSE
  ELSE LET sample == SubSeq(buffer, 1, Min(Len(buffer), SAMPLE_BYTES)) IN
       \/ \E k \in 1..Len(sample) : sample[k] = 0
       \/ CountSuspicious(sample) * 10 >= 3 * Len(sample)

isBinaryBuffer(buffer) ==
  IF Len(buffer) = 0 THEN FALSE
  ELSE LET sample == SubSeq(buffer, 1, Min(Len(buffer), SAMPLE_BYTES)) IN
       \/ \E k \in 1..Len(sample) : sample[k] = 0
       \/ CountSuspicious(sample) * 10 > 3 * Len(sample)

\* buffer.toString('utf8', 0, MAX_INDEXED_BYTES): the capped prefix only
toContents(file) == file.prefix

\* String.prototype.trim on a sequence of char codes; the texts here hold no
\* other white space than the space, 32
RECURSIVE TrimStart(_)
TrimStart(text) ==
  IF text # <<>> /\ Head(text) = 32 THEN TrimStart(Tail(text)) ELSE text

RECURSIVE TrimEnd(_)
TrimEnd(text) ==
  IF text # <<>> /\ text[Len(text)] = 32 THEN TrimEnd(SubSeq(text, 1, Len(text) - 1)) ELSE text

Trim(text) == TrimEnd(TrimStart(text))

\* text.trim().length === 0 ? ' ' : text
embedText(text) == [model |-> "MiniLM", input |-> IF Len(Trim(text)) = 0 THEN <<32>> ELSE text]

toVectorId(repo, filePath) == repo \o VECTOR_ID_SEPARATOR \o filePath

\* `id = '<escaped id>'`: the store compares the unescaped literal with row.id
IdFilter(id) == [column |-> "id", equals |-> id]
MatchesFilter(row, filter) == row[filter.column] = filter.equals

\* ------------------------------------------------------------------ state
VARIABLES
  disk,        \* the working tree: path -> file version, or ABSENT
  now,         \* Date.now(): advanced by one by every tree edit and every CLI invocation
  file_meta,   \* table file_meta: rows [id, repo, path, filename, mtime_ms, size_bytes, hash]
  file_fts,    \* table file_fts: rows [rowid, repo, path, filename, contents]
  repo_index,  \* table repo_index: rows [repo, source, last_indexed_ms, last_error]
  vectors,     \* the vector table: a bag of rows [id, repo, path, ..., vector]
  run,         \* the locals of the current (or last) indexRepository call, and three
               \* history fields: treeUnchanged, vectorsAgreed, sourceBefore (the state at its start)
  dirty,       \* history: repo -> the tree was edited since repo's last commit
  sqliteDb,    \* db.ts: the module's connection to the metadata+text store, ABSENT while null
  connections, \* history: how many connections `new BetterSqlite3` has created in this process
  search,      \* the locals of the current (or last) search call and of its sub-searches
  normalized,  \* the last call of a score normalizer: its argument and its result
  lance,       \* db.ts: the vector database's table 'files' (its schema; its rows are
               \* `vectors`) and the locals of the last initializeLanceTable call
  retry,       \* the locals of the current (or last) retryLanceOperation call
  sniff,       \* the last call of isBinaryBuffer: its argument and its result
  reset        \* db.ts: whether lanceTablePromise is set in this process, and the locals
               \* of the current (or last) resetRepoData call

indexVars == <<disk, now, file_meta, file_fts, repo_index, vectors, run, dirty>>
searchVars == <<sqliteDb, connections, search, normalized, lance, retry, sniff, reset>>
vars == <<disk, now, file_meta, file_fts, repo_index, vectors, run, dirty,
          sqliteDb, connections, search, normalized, lance, retry, sniff, reset>>

IdleRun ==
  [ pc |-> "idle", repoName |-> NULL, force |-> FALSE, source |-> NULL,
    entries |-> <<>>, processedCount |-> 0, existingRecords |-> <<>>,
    seenPaths |-> {}, pendingUpdates |-> <<>>, removedRecords |-> <<>>,
    binarySkipped |-> 0, unchangedSkipped |-> 0, embedCalls |-> <<>>,
    step |-> 0, summary |-> ABSENT, thrown |-> NULL, exitCode |-> 0,
    treeUnchanged |-> FALSE, vectorsAgreed |-> FALSE, sourceBefore |-> NULL ]

\* a sub-search that was not started, a process that has not searched yet
IdleSub == [pc |-> "idle", db |-> ABSENT, results |-> <<>>, error |-> NULL]

IdleSearch ==
  [ pc |-> "idle", calls |-> 0, query |-> <<>>, mode |-> NULL, options |-> <<>>,
    keyword |-> IdleSub, semantic |-> IdleSub,
    combined |-> <<>>, result |-> <<>>, returned |-> FALSE, thrown |-> NULL,
    exitCode |-> 0 ]

\* no initializeLanceTable call yet; `calls`, `existing`, `before` and `dropped`
\* are history: the calls so far, the schema the call found, the rows at its
\* start, and whether it dropped the table
IdleInitialize ==
  [ pc |-> "idle", calls |-> 0, table |-> NULL, thrown |-> NULL,
    existing |-> ABSENT, before |-> EmptyBag, dropped |-> FALSE ]

\* the table 'files' as a completed initializeLanceTable leaves it
InitializedLance ==
  [ files |-> [vectorColumn |-> TRUE], init |-> IdleInitialize ]

\* a process that has not used the vector table and has not called resetRepoData
IdleReset == [pc |-> "idle", repo |-> NULL, lanceTablePromise |-> FALSE, calls |-> 0, thrown |-> NULL]

\* no retryLanceOperation call yet; `calls`, `attempts`, `errors` and `delays`
\* are history: the calls so far, the attempts the call made, the errors its
\* attempts threw and the delays it waited, in order
IdleRetry ==
  [ pc |-> "idle", calls |-> 0, operation |-> ABSENT, attempt |-> 0,
    lastError |-> ABSENT, thrown |-> ABSENT,
    attempts |-> 0, errors |-> <<>>, delays |-> <<>> ]

Init ==
  /\ disk \in InitialTrees
  /\ now = 0
  /\ file_meta = {}
  /\ file_fts = {}
  /\ repo_index = {}
  /\ vectors = EmptyBag
  /\ run = IdleRun
  /\ dirty = [r \in Repos |-> TRUE]
  /\ sqliteDb = ABSENT
  /\ connections = 0
  /\ search = IdleSearch
  /\ normalized = ABSENT
  /\ lance = InitializedLance
  /\ retry = IdleRetry
  /\ sniff = ABSENT
  /\ reset = IdleReset

NoRunActive == run.pc \in {"idle", "done", "failed"}

\* ------------------------------------------------------- the working tree
WriteFile(p, v) ==
  /\ NoRunActive
  /\ now < MaxCommands
  /\ disk[p] # v
  /\ disk' = [disk EXCEPT ![p] = v]
  /\ now' = now + 1
  /\ dirty' = [r \in Repos |-> TRUE]
  /\ run' = IdleRun
  /\ UNCHANGED <<file_meta, file_fts, repo_index, vectors>>
  /\ UNCHANGED searchVars

DeleteFile(p) ==
  /\ NoRunActive
  /\ now < MaxCommands
  /\ disk[p] # ABSENT
  /\ disk' = [disk EXCEPT ![p] = ABSENT]
  /\ now' = now + 1
  /\ dirty' = [r \in Repos |-> TRUE]
  /\ run' = IdleRun
  /\ UNCHANGED <<file_meta, file_fts, repo_index, vectors>>
  /\ UNCHANGED searchVars

\* ------------------------------------------------- metadata + text store
MaxOf(S) == CHOOSE x \in S : \A y \in S : y <= x

\* INTEGER PRIMARY KEY without AUTOINCREMENT: largest rowid in the table + 1
NextRowId(table) == IF table = {} THEN 1 ELSE MaxOf({ r.id : r \in table }) + 1

RECURSIVE SortById(_)
SortById(rows) ==
  IF rows = {} THEN <<>>
  ELSE LET lo == CHOOSE r \in rows : \A q \in rows : r.id <= q.id
       IN <<lo>> \o SortById(rows \ {lo})

\* SELECT id, path, hash FROM file_meta WHERE repo = ?
SelectExisting(table, repo) ==
  SortById({ [id |-> r.id, path |-> r.path, hash |-> r.hash] : r \in { q \in table : q.repo = repo } })

\* variant of the upsert: INSERT OR REPLACE, the conflicting row deleted and a new one inserted
upsertMeta_Replace(table, meta) ==
  LET rest == { r \in table : ~(r.repo = meta.repo /\ r.path = meta.path) }
      id == IF table = {} THEN 1
            ELSE (CHOOSE x \in { r.id : r \in table } : \A r \in table : r.id <= x) + 1
  IN [table |-> rest \cup { [id |-> id, repo |-> meta.repo, path |-> meta.path,
                             filename |-> meta.filename, mtime_ms |-> meta.mtime_ms,
                             size_bytes |-> meta.size_bytes, hash |-> meta.hash] },
      id |-> id]

\* INSERT ... ON CONFLICT(repo, path) DO UPDATE SET ... RETURNING id
upsertMeta(table, meta) ==
  LET hit == { r \in table : r.repo = meta.repo /\ r.path = meta.path } IN
  IF hit # {}
  THEN LET old == CHOOSE r \in hit : TRUE
           new == [old EXCEPT !.filename = meta.filename, !.mtime_ms = meta.mtime_ms,
                              !.size_bytes = meta.size_bytes, !.hash = meta.hash]
       IN [table |-> (table \ hit) \cup {new}, id |-> old.id]
  ELSE LET id == NextRowId(table)
       IN [table |-> table \cup { [id |-> id, repo |-> meta.repo, path |-> meta.path,
                                   filename |-> meta.filename, mtime_ms |-> meta.mtime_ms,
                                   size_bytes |-> meta.size_bytes, hash |-> meta.hash] },
           id |-> id]

\* DELETE FROM file_fts WHERE rowid = ?
deleteFtsByRowId(fts, id) == { f \in fts : f.rowid # id }

\* DELETE FROM file_meta WHERE id = ?
deleteMetaById(table, id) == { r \in table : r.id # id }

\* variant of the updates: the FileRecord is upserted, its text row is not replaced
RECURSIVE UpdateStatements_MetaOnly(_)
UpdateStatements_MetaOnly(updates) ==
  IF updates = <<>> THEN <<>>
  ELSE << [op |-> "upsertMeta", meta |-> Head(updates).meta] >>
       \o UpdateStatements_MetaOnly(Tail(updates))

\* The statements the transaction body issues, in order.
RECURSIVE UpdateStatements(_)
UpdateStatements(updates) ==
  IF updates = <<>> THEN <<>>
  ELSE LET record == Head(updates) IN
       << [op |-> "upsertMeta", meta |-> record.meta],
          [op |-> "deleteFtsInserted"],
          [op |-> "insertFts", meta |-> record.meta, contents |-> record.contents] >>
       \o UpdateStatements(Tail(updates))

\* variant of the deletions: the text row of a removed record left behind
RECURSIVE DeletionStatements_MetaOnly(_)
DeletionStatements_MetaOnly(deletions) ==
  IF deletions = <<>> THEN <<>>
  ELSE << [op |-> "deleteMetaById", id |-> Head(deletions).id] >>
       \o DeletionStatements_MetaOnly(Tail(deletions))

RECURSIVE DeletionStatements(_)
DeletionStatements(deletions) ==
  IF deletions = <<>> THEN <<>>
  ELSE LET removal == Head(deletions) IN
       << [op |-> "deleteFtsByRowId", id |-> removal.id],
          [op |-> "deleteMetaById", id |-> removal.id] >>
       \o DeletionStatements(Tail(deletions))

TransactionBody(updates, deletions) ==
  UpdateStatements(updates) \o DeletionStatements(deletions)

\* One statement on the connection's uncommitted view st = [meta, fts, inserted, ok].
Exec(st, s) ==
  CASE s.op = "upsertMeta" ->
         LET res == upsertMeta(st.meta, s.meta)
         IN [st EXCEPT !.meta = res.table, !.inserted = res.id]
    [] s.op = "deleteFtsInserted" ->
         [st EXCEPT !.fts = deleteFtsByRowId(st.fts, st.inserted)]
    [] s.op = "insertFts" ->
         IF \E f \in st.fts : f.rowid = st.inserted
         THEN [st EXCEPT !.ok = FALSE]     \* rowid is the table's key
         ELSE [st EXCEPT !.fts = st.fts \cup
                 { [rowid |-> st.inserted, repo |-> s.meta.repo, path |-> s.meta.path,
                    filename |-> s.meta.filename, contents |-> s.contents] }]
    [] s.op = "deleteFtsByRowId" ->
         [st EXCEPT !.fts = deleteFtsByRowId(st.fts, s.id)]
    [] s.op = "deleteMetaById" ->
         [st EXCEPT !.meta = deleteMetaById(st.meta, s.id)]

\* the first k statements of stmts, stopping at a statement that throws
RECURSIVE RunStatements(_, _, _)
RunStatements(st, stmts, k) ==
  IF k = 0 \/ stmts = <<>> \/ ~st.ok THEN st
  ELSE RunStatements(Exec(st, Head(stmts)), Tail(stmts), k - 1)

\* variant: the statements run without a transaction around them
Rollback_KeepsPartial(before, partial) == partial

\* db.transaction(fn): COMMIT when fn returns, ROLLBACK when it throws
Rollback(before, partial) == before

\* ------------------------------------------------------------ vector store
RECURSIVE SeqToBag(_)
SeqToBag(rows) ==
  IF rows = <<>> THEN EmptyBag ELSE SetToBag({Head(rows)}) (+) SeqToBag(Tail(rows))

\* table.delete(filter)
tableDelete(table, filter) ==
  LET keep == { row \in DOMAIN table : ~MatchesFilter(row, filter) }
  IN [row \in keep |-> table[row]]

\* table.add(rows): appends, no key is enforced
tableAdd(table, rows) == table (+) SeqToBag(rows)

VectorRow(repo, record) ==
  [ id |-> toVectorId(repo, record.meta.path), repo |-> repo, path |-> record.meta.path,
    filename |-> record.meta.filename, mtime_ms |-> record.meta.mtime_ms,
    size_bytes |-> record.meta.size_bytes, hash |-> record.meta.hash,
    vector |-> record.embedding ]

\* ---------------------------------------------------------------- registry
\* variant of the statement: a plain INSERT into a table without the key
upsertRepoIndex_InsertOnly(table, repo, source, timestamp, error) ==
  table \cup { [repo |-> repo, source |-> source, last_indexed_ms |-> timestamp,
                last_error |-> error] }

\* variant of the statement: on a conflict a null source keeps the stored one
upsertRepoIndex_KeepsSource(table, repo, source, timestamp, error) ==
  IF \E r \in table : r.repo = repo
  THEN { IF r.repo = repo
         THEN [r EXCEPT !.source = IF source = NULL THEN @ ELSE source,
                        !.last_indexed_ms = timestamp, !.last_error = error]
         ELSE r : r \in table }
  ELSE table \cup { [repo |-> repo, source |-> source, last_indexed_ms |-> timestamp,
                     last_error |-> error] }

\* INSERT INTO repo_index ... ON CONFLICT(repo) DO UPDATE SET source, last_indexed_ms, last_error
upsertRepoIndex(table, repo, source, timestamp, error) ==
  IF \E r \in table : r.repo = repo
  THEN { IF r.repo = repo
         THEN [r EXCEPT !.source = source, !.last_indexed_ms = timestamp, !.last_error = error]
         ELSE r : r \in table }
  ELSE table \cup { [repo |-> repo, source |-> source, last_indexed_ms |-> timestamp,
                     last_error |-> error] }

\* variant of the count: the rows of file_meta, of any repository
FileCount_OfAllRepositories(repo) == Cardinality(file_meta)

\* (SELECT COUNT(*) FROM file_meta fm WHERE fm.repo = repo_index.repo)
FileCount(repo) == Cardinality({ fm \in file_meta : fm.repo = repo })

\* the bytes of the repository names, which the BINARY collation compares
Utf8(repo) ==
  CASE repo = "app" -> <<97, 112, 112>>
    [] repo = "app:src" -> <<97, 112, 112, 58, 115, 114, 99>>

\* memcmp over the common length, then the shorter text first
RECURSIVE BinaryLess(_, _)
BinaryLess(a, b) ==
  IF a = <<>> THEN b # <<>>
  ELSE IF b = <<>> THEN FALSE
  ELSE IF Head(a) # Head(b) THEN Head(a) < Head(b)
  ELSE BinaryLess(Tail(a), Tail(b))

\* ORDER BY repo ASC
RECURSIVE OrderByRepo(_)
OrderByRepo(rows) ==
  IF rows = {} THEN <<>>
  ELSE LET first == CHOOSE r \in rows :
                      \A other \in rows \ {r} : ~BinaryLess(Utf8(other.repo), Utf8(r.repo))
       IN <<first>> \o OrderByRepo(rows \ {first})

\* SELECT repo, source, last_indexed_ms, last_error, (SELECT COUNT(*) ...) AS file_count
\* FROM repo_index ORDER BY repo ASC
listRepoIndex ==
  OrderByRepo({ [repo |-> r.repo, source |-> r.source, last_indexed_ms |-> r.last_indexed_ms,
                 last_error |-> r.last_error, file_count |-> FileCount(r.repo)] : r \in repo_index })

\* ------------------------------------------------------- indexRepository
\* variants of the unchanged test: the negation of force lost, the hash test inverted
SkipUnchanged_ForceNotNegated(existing, hash, force) ==
  existing # ABSENT /\ existing.hash = hash /\ force

SkipUnchanged_HashInverted(existing, hash, force) ==
  existing # ABSENT /\ existing.hash # hash /\ ~force

\* variant of the unchanged test: force is not looked at
SkipUnchanged_IgnoresForce(existing, hash, force) ==
  existing # ABSENT /\ existing.hash = hash

\* variant of the unchanged test: never unchanged, every file is staged again
SkipUnchanged_Never(existing, hash, force) == FALSE

\* existing && existing.hash === hash && !force
SkipUnchanged(existing, hash, force) ==
  existing # ABSENT /\ existing.hash = hash /\ ~force

\* existingByPath.get(relativePath)
ExistingByPath(existingRecords, relativePath) ==
  IF \E k \in 1..Len(existingRecords) : existingRecords[k].path = relativePath
  THEN existingRecords[CHOOSE k \in 1..Len(existingRecords) : existingRecords[k].path = relativePath]
  ELSE ABSENT

\* variant of the staging of removals: the seen records staged instead of the unseen
RECURSIVE RemovedRecords_SeenStaged(_, _)
RemovedRecords_SeenStaged(existingRecords, seenPaths) ==
  IF existingRecords = <<>> THEN <<>>
  ELSE LET record == Head(existingRecords) IN
       (IF record.path \in seenPaths
        THEN << [id |-> record.id, path |-> record.path] >> ELSE <<>>)
       \o RemovedRecords_SeenStaged(Tail(existingRecords), seenPaths)

\* for (const record of existingRecords) if (!seenPaths.has(record.path)) removedRecords.push(...)
RECURSIVE RemovedRecords(_, _)
RemovedRecords(existingRecords, seenPaths) ==
  IF existingRecords = <<>> THEN <<>>
  ELSE LET record == Head(existingRecords) IN
       (IF record.path \notin seenPaths
        THEN << [id |-> record.id, path |-> record.path] >> ELSE <<>>)
       \o RemovedRecords(Tail(existingRecords), seenPaths)

RECURSIVE VectorRows(_, _)
VectorRows(repo, updates) ==
  IF updates = <<>> THEN <<>>
  ELSE <<VectorRow(repo, Head(updates))>> \o VectorRows(repo, Tail(updates))

\* id = '<repo>:<path>' of a removed record, of an updated record
RemovalFilter_ByRowId(repo, removal) == IdFilter(toVectorId(repo, ToString(removal.id)))

RemovalFilter(repo, removal) == IdFilter(toVectorId(repo, removal.path))

UpdateFilter_ByFilename(repo, record) == IdFilter(toVectorId(repo, record.meta.filename))

UpdateFilter(repo, record) == IdFilter(toVectorId(repo, record.meta.path))

\* variant: the registry upsert issued right after the transaction
AfterCommit_SkipVectors(removed, pending) == "registry"

\* where the run goes after the transaction / after the removals' deletes
AfterCommit(removed, pending) ==
  IF removed # <<>> THEN "deleteRemoved"
  ELSE IF pending # <<>> THEN "deleteUpdated" ELSE "registry"

\* variant: the rows of the updated paths are added without the deletes
AfterRemovals_StraightToAdd(pending) == IF pending # <<>> THEN "add" ELSE "registry"

AfterRemovals(pending) == IF pending # <<>> THEN "deleteUpdated" ELSE "registry"

\* an await rejected: nothing in indexRepository catches, wrapAction reports it
\* with a message: the call's locals are gone, the process exits with status 1
Throw(r, message) ==
  [IdleRun EXCEPT !.pc = "failed", !.repoName = r.repoName,
                  !.thrown = message, !.exitCode = 1]

\* history: the vector ids of repo are exactly the ids of its FileRecords
VectorsAgree(repo) ==
  { row.id : row \in { r \in DOMAIN vectors : r.repo = repo } }
    = { toVectorId(repo, m.path) : m \in { r \in file_meta : r.repo = repo } }

\* history: the source in the registry row of repo, UNREGISTERED without a row
RegisteredSource(repo) ==
  IF \E r \in repo_index : r.repo = repo
  THEN (CHOOSE r \in repo_index : r.repo = repo).source
  ELSE UNREGISTERED

\* lines 226-250: the glob, the store handles, the SELECT of existing records
StartRun(repo, force, source) ==
  /\ NoRunActive
  /\ now < MaxCommands
  /\ now' = now + 1
  /\ run' = [IdleRun EXCEPT
       !.pc = "scan", !.repoName = repo, !.force = force, !.source = source,
       !.entries = FilterSeq(ListingOrder, { p \in Paths : disk[p] # ABSENT }),
       !.existingRecords = SelectExisting(file_meta, repo),
       !.treeUnchanged = ~dirty[repo], !.vectorsAgreed = VectorsAgree(repo),
       !.sourceBefore = RegisteredSource(repo)]
  /\ UNCHANGED <<disk, file_meta, file_fts, repo_index, vectors, dirty>>
  /\ UNCHANGED searchVars

\* repogrep index <path> -r <repo> [--force]
CmdIndex(repo, force) == StartRun(repo, force, NULL)

\* repogrep add <url> -n <repo>
CmdAdd(repo) == StartRun(repo, FALSE, RemoteUrl)

\* the glob or the opening of a store rejects
StartThrows(repo) ==
  /\ NoRunActive
  /\ now < MaxCommands
  /\ now' = now + 1
  /\ run' = Throw([IdleRun EXCEPT !.repoName = repo], "cannot start the scan")
  /\ UNCHANGED <<disk, file_meta, file_fts, repo_index, vectors, dirty>>
  /\ UNCHANGED searchVars

Scanning == run.pc = "scan" /\ run.processedCount < Len(run.entries)
CurrentPath == run.entries[run.processedCount + 1]
CurrentBuffer == disk[CurrentPath]
WouldEmbed ==
  /\ ~isBinaryBuffer(CurrentBuffer.prefix)
  /\ ~SkipUnchanged(ExistingByPath(run.existingRecords, CurrentPath),
                    hashBuffer(CurrentBuffer), run.force)

\* one iteration of the loop over entries
ProcessFile ==
  /\ Scanning
  /\ LET relativePath == CurrentPath
         buffer == CurrentBuffer
         contents == toContents(buffer)
         hash == hashBuffer(buffer)
         existing == ExistingByPath(run.existingRecords, relativePath)
         meta == [repo |-> run.repoName, path |-> relativePath,
                  filename |-> getFilename(relativePath), mtime_ms |-> buffer.mtimeMs,
                  size_bytes |-> buffer.size, hash |-> hash]
     IN run' =
          IF isBinaryBuffer(buffer.prefix)
          THEN [run EXCEPT !.binarySkipped = @ + 1, !.processedCount = @ + 1]
          ELSE IF SkipUnchanged(existing, hash, run.force)
          THEN [run EXCEPT !.seenPaths = @ \cup {relativePath},
                           !.unchangedSkipped = @ + 1, !.processedCount = @ + 1]
          ELSE [run EXCEPT !.seenPaths = @ \cup {relativePath},
                           !.embedCalls = Append(@, [path |-> relativePath, text |-> contents]),
                           !.pendingUpdates = Append(@, [meta |-> meta, contents |-> contents,
                                                         embedding |-> embedText(contents)]),
                           !.processedCount = @ + 1]
  /\ UNCHANGED <<disk, now, file_meta, file_fts, repo_index, vectors, dirty>>
  /\ UNCHANGED searchVars

\* fs.readFile or fs.stat rejects
ReadFileThrows ==
  /\ Scanning
  /\ run' = Throw(run, "EACCES: permission denied")
  /\ UNCHANGED <<disk, now, file_meta, file_fts, repo_index, vectors, dirty>>
  /\ UNCHANGED searchVars

\* embedText rejects
EmbedTextThrows ==
  /\ Scanning
  /\ WouldEmbed
  /\ run' = Throw(run, "embedding failed")
  /\ UNCHANGED <<disk, now, file_meta, file_fts, repo_index, vectors, dirty>>
  /\ UNCHANGED searchVars

\* variant of the loop's end: the loop is left after its first file
ScanFinished_AfterFirstFile == run.pc = "scan" /\ run.processedCount >= Min(1, Len(run.entries))

ScanFinished == run.pc = "scan" /\ run.processedCount = Len(run.entries)

\* lines 356-400: stage the removals, run the transaction, it commits
CommitTransaction ==
  /\ ScanFinished
  /\ LET removed == RemovedRecords(run.existingRecords, run.seenPaths)
         stmts == TransactionBody(run.pendingUpdates, removed)
         st == RunStatements([meta |-> file_meta, fts |-> file_fts, inserted |-> 0, ok |-> TRUE],
                             stmts, Len(stmts))
     IN /\ st.ok
        /\ file_meta' = st.meta
        /\ file_fts' = st.fts
        /\ run' = [run EXCEPT !.removedRecords = removed, !.step = 0,
                              !.pc = AfterCommit(removed, run.pendingUpdates)]
        /\ dirty' = [dirty EXCEPT ![run.repoName] = FALSE]
  /\ UNCHANGED <<disk, now, repo_index, vectors>>
  /\ UNCHANGED searchVars

\* lines 356-400: statement k+1 of the transaction throws, the transaction rolls back
TransactionThrows ==
  /\ ScanFinished
  /\ LET removed == RemovedRecords(run.existingRecords, run.seenPaths)
         stmts == TransactionBody(run.pendingUpdates, removed)
     IN \E k \in 0..(Len(stmts) - 1) :
          LET st == RunStatements([meta |-> file_meta, fts |-> file_fts, inserted |-> 0, ok |-> TRUE],
                                  stmts, k)
              db == Rollback([meta |-> file_meta, fts |-> file_fts], [meta |-> st.meta, fts |-> st.fts])
          IN /\ file_meta' = db.meta
             /\ file_fts' = db.fts
             /\ run' = Throw(run, "SQLITE_FULL")
  /\ UNCHANGED <<disk, now, repo_index, vectors, dirty>>
  /\ UNCHANGED searchVars

\* lines 402-405: await table.delete(filter) for one removed record
VectorDeleteRemoved ==
  /\ run.pc = "deleteRemoved"
  /\ LET removal == run.removedRecords[run.step + 1]
         filter == RemovalFilter(run.repoName, removal)
     IN /\ vectors' = tableDelete(vectors, filter)
        /\ run' = IF run.step + 1 = Len(run.removedRecords)
                  THEN [run EXCEPT !.step = 0, !.pc = AfterRemovals(run.pendingUpdates)]
                  ELSE [run EXCEPT !.step = @ + 1]
  /\ UNCHANGED <<disk, now, file_meta, file_fts, repo_index, dirty>>
  /\ UNCHANGED searchVars

\* lines 408-414: await table.delete(filter) for one updated record
VectorDeleteUpdated ==
  /\ run.pc = "deleteUpdated"
  /\ LET record == run.pendingUpdates[run.step + 1]
         filter == UpdateFilter(run.repoName, record)
     IN /\ vectors' = tableDelete(vectors, filter)
        /\ run' = IF run.step + 1 = Len(run.pendingUpdates)
                  THEN [run EXCEPT !.step = 0, !.pc = "add"]
                  ELSE [run EXCEPT !.step = @ + 1]
  /\ UNCHANGED <<disk, now, file_meta, file_fts, repo_index, dirty>>
  /\ UNCHANGED searchVars

\* lines 416-427: await table.add(rows)
VectorAdd ==
  /\ run.pc = "add"
  /\ vectors' = tableAdd(vectors, VectorRows(run.repoName, run.pendingUpdates))
  /\ run' = [run EXCEPT !.pc = "registry"]
  /\ UNCHANGED <<disk, now, file_meta, file_fts, repo_index, dirty>>
  /\ UNCHANGED searchVars

\* variant of the failure: the rows the transaction wrote for the repository
\* are taken back when a vector write rejects
VectorStoreThrows_RollsBack ==
  /\ run.pc \in {"deleteRemoved", "deleteUpdated", "add"}
  /\ run' = Throw(run, "Commit conflict")
  /\ file_meta' = { m \in file_meta : m.repo # run.repoName }
  /\ file_fts' = { f \in file_fts : f.repo # run.repoName }
  /\ UNCHANGED <<disk, now, repo_index, vectors, dirty>>
  /\ UNCHANGED searchVars

\* table.delete or table.add rejects (a commit conflict, an I/O error)
VectorStoreThrows ==
  /\ run.pc \in {"deleteRemoved", "deleteUpdated", "add"}
  /\ run' = Throw(run, "Commit conflict")
  /\ UNCHANGED <<disk, now, file_meta, file_fts, repo_index, vectors, dirty>>
  /\ UNCHANGED searchVars

\* variant of the summary: filesScanned counts the non-binary files only
Summary_ScannedWithoutBinary(r) ==
  [ repo |-> r.repoName, filesScanned |-> Len(r.entries) - r.binarySkipped,
    filesIndexed |-> Len(r.pendingUpdates), filesDeleted |-> Len(r.removedRecords),
    filesSkippedBinary |-> r.binarySkipped, filesSkippedUnchanged |-> r.unchangedSkipped ]

Summary(r) ==
  [ repo |-> r.repoName, filesScanned |-> Len(r.entries),
    filesIndexed |-> Len(r.pendingUpdates), filesDeleted |-> Len(r.removedRecords),
    filesSkippedBinary |-> r.binarySkipped, filesSkippedUnchanged |-> r.unchangedSkipped ]

\* lines 430-443: the registry upsert, then the summary is returned
UpsertRegistry ==
  /\ run.pc = "registry"
  /\ repo_index' = upsertRepoIndex(repo_index, run.repoName, run.source, now, NULL)
  /\ run' = [run EXCEPT !.pc = "done", !.summary = Summary(run)]
  /\ UNCHANGED <<disk, now, file_meta, file_fts, vectors, dirty>>
  /\ UNCHANGED searchVars

\* upsertRepoIndex rejects
UpsertRegistryThrows ==
  /\ run.pc = "registry"
  /\ run' = Throw(run, "SQLITE_BUSY")
  /\ UNCHANGED <<disk, now, file_meta, file_fts, repo_index, vectors, dirty>>
  /\ UNCHANGED searchVars

Next ==
  \/ \E p \in Paths, v \in FileVersions : WriteFile(p, v)
  \/ \E p \in Paths : DeleteFile(p)
  \/ \E repo \in Repos, force \in BOOLEAN : CmdIndex(repo, force)
  \/ \E repo \in Repos : CmdAdd(repo)
  \/ \E repo \in Repos : StartThrows(repo)
  \/ ProcessFile
  \/ ReadFileThrows
  \/ EmbedTextThrows
  \/ CommitTransaction
  \/ TransactionThrows
  \/ VectorDeleteRemoved
  \/ VectorDeleteUpdated
  \/ VectorAdd
  \/ VectorStoreThrows
  \/ UpsertRegistry
  \/ UpsertRegistryThrows

Spec == Init /\ [][Next]_vars

\* ======================================================================
\* Search (search.ts) and the store handle (db.ts)
\* ======================================================================
\* ------------------------------------------------------------------ bounds
\* search calls made by one process
MaxSearches == 2
\* the normalizers are given the halves n/2 for n in -MaxHalves..MaxHalves
MaxHalves == 24

\* ------------------------------------------------------- program constants
DEFAULT_LIMIT == 20

\* ------------------------------------------------------ JavaScript numbers
\* A finite number is a reduced fraction num/den with den > 0.
RECURSIVE GCD(_, _)
GCD(a, b) == IF b = 0 THEN a ELSE GCD(b, a % b)

Abs(n) == IF n < 0 THEN -n ELSE n

Rat(n, d) == LET g == GCD(Abs(n), d) IN [num |-> n \div g, den |-> d \div g]

NaN == [nan |-> TRUE]
PosInfinity == [infinity |-> 1]
NegInfinity == [infinity |-> -1]
UNDEFINED == [undefined |-> TRUE]
JSNULL == [null |-> TRUE]
Zero == Rat(0, 1)
One == Rat(1, 1)

\* Number.isFinite(x): false for undefined, null, NaN and the infinities
IsFinite(x) == DOMAIN x = {"num", "den"}

\* the conversion Math.max applies to its arguments
ToNumber(x) == IF x = UNDEFINED THEN NaN ELSE IF x = JSNULL THEN Zero ELSE x

\* a < b, both finite
Less(a, b) == a.num * b.den < b.num * a.den

\* Math.max(a, b)
MathMax(a, b) ==
  LET x == ToNumber(a)
      y == ToNumber(b)
  IN IF x = NaN \/ y = NaN THEN NaN
     ELSE IF x = PosInfinity \/ y = PosInfinity THEN PosInfinity
     ELSE IF x = NegInfinity THEN y
     ELSE IF y = NegInfinity THEN x
     ELSE IF Less(x, y) THEN y ELSE x

\* a + b
JsAdd(a, b) ==
  IF a = NaN \/ b = NaN THEN NaN
  ELSE IF ~IsFinite(a) THEN (IF IsFinite(b) \/ a = b THEN a ELSE NaN)
  ELSE IF ~IsFinite(b) THEN b
  ELSE Rat(a.num * b.den + b.num * a.den, a.den * b.den)

\* a * b
JsMul(a, b) ==
  IF a = NaN \/ b = NaN THEN NaN
  ELSE IF IsFinite(a) /\ IsFinite(b) THEN Rat(a.num * b.num, a.den * b.den)
  ELSE LET sign(x) == IF IsFinite(x) THEN (IF x.num > 0 THEN 1 ELSE IF x.num < 0 THEN -1 ELSE 0)
                      ELSE x.infinity
       IN IF sign(a) * sign(b) = 0 THEN NaN
          ELSE IF sign(a) * sign(b) > 0 THEN PosInfinity ELSE NegInfinity

\* 1 / x
Reciprocal(x) ==
  IF x = NaN THEN NaN
  ELSE IF ~IsFinite(x) THEN Zero
  ELSE IF x.num = 0 THEN PosInfinity
  ELSE IF x.num > 0 THEN Rat(x.den, x.num) ELSE Rat(-x.den, -x.num)

\* ------------------------------------------------------- score normalizers
normalizeKeywordScore(bm25) ==
  IF ~IsFinite(bm25) THEN Zero
  ELSE Reciprocal(JsAdd(One, MathMax(bm25, Zero)))

normalizeSemanticScore(distance) ==
  IF distance = UNDEFINED THEN Zero
  ELSE Reciprocal(JsAdd(One, MathMax(distance, Zero)))

\* ----------------------------------------------------------------- options
\* options.<field> ?? fallback
Coalesce(options, field, fallback) ==
  IF field \in DOMAIN options THEN options[field] ELSE fallback

DefaultSemanticWeight == Rat(3, 5)
DefaultKeywordWeight == Rat(2, 5)

\* the SearchOptions a caller passes: any of limit, repo and the two weights
SearchOptions ==
  { l @@ r @@ w :
      l \in { <<>>, [limit |-> 1], [limit |-> 2] },
      r \in { <<>>, [repo |-> "app"] },
      w \in { <<>>, [keywordWeight |-> Rat(1, 2), semanticWeight |-> Rat(1, 2)] } }

SearchModes == {"keyword", "semantic", "hybrid"}

\* ---------------------------------------------------------------- engines
\* What bm25(file_fts) and the vector search report for a row: a finite
\* number, or nothing.
EngineRanks == { Rat(-2, 1), Rat(1, 1), JSNULL }
EngineDistances == { Rat(0, 1), Rat(3, 1), UNDEFINED }

\* ascending order of the engines, rows without a value first
EngineLess(a, b) ==
  IF ~IsFinite(a) THEN IsFinite(b)
  ELSE IsFinite(b) /\ Less(a, b)

\* ORDER BY bm25 / nearest first; the order among equal values is the engine's
RECURSIVE OrderBy(_, _)
OrderBy(rows, value) ==
  IF rows = {} THEN <<>>
  ELSE LET first == CHOOSE r \in rows : \A q \in rows : ~EngineLess(value[q], value[r])
       IN <<first>> \o OrderBy(rows \ {first}, value)

\* variant of the cut: nothing is cut
Take_NoLimit(seq, n) == seq

\* LIMIT ? / .limit(limit) / .slice(0, limit)
Take(seq, n) == SubSeq(seq, 1, Min(Len(seq), n))

\* FROM file_fts JOIN file_meta m ON m.id = file_fts.rowid [AND m.repo = ?]
KeywordCandidates(options) ==
  { m \in file_meta :
      /\ \E f \in file_fts : f.rowid = m.id
      /\ "repo" \in DOMAIN options => m.repo = options.repo }

\* the rows of the vector table [where repo = '<repo>']
SemanticCandidates(options) ==
  { row \in DOMAIN vectors : "repo" \in DOMAIN options => row.repo = options.repo }

RECURSIVE KeywordResults(_, _)
KeywordResults(rows, bm25) ==
  IF rows = <<>> THEN <<>>
  ELSE LET row == Head(rows)
           keywordScore == normalizeKeywordScore(bm25[row])
       IN << [ repo |-> row.repo, path |-> row.path, filename |-> row.filename,
               keywordScore |-> keywordScore, score |-> keywordScore, mode |-> "keyword" ] >>
          \o KeywordResults(Tail(rows), bm25)

RECURSIVE SemanticResults(_, _)
SemanticResults(rows, distance) ==
  IF rows = <<>> THEN <<>>
  ELSE LET row == Head(rows)
           semanticScore == normalizeSemanticScore(distance[row])
       IN << [ repo |-> row.repo, path |-> row.path, filename |-> row.filename,
               semanticScore |-> semanticScore, score |-> semanticScore, mode |-> "semantic" ] >>
          \o SemanticResults(Tail(rows), distance)

\* ------------------------------------------------------------ hybridSearch
\* `${result.repo}:${result.path}`
ResultKey(result) == result.repo \o ":" \o result.path

\* combined: a Map, kept as the sequence of its [key, value] in insertion order
MapHas(map, key) == \E i \in 1..Len(map) : map[i].key = key

MapGet(map, key) ==
  IF MapHas(map, key)
  THEN map[CHOOSE i \in 1..Len(map) : map[i].key = key].value
  ELSE ABSENT

MapSet(map, key, value) ==
  IF MapHas(map, key)
  THEN [ i \in 1..Len(map) |-> IF map[i].key = key THEN [key |-> key, value |-> value] ELSE map[i] ]
  ELSE Append(map, [key |-> key, value |-> value])

MapValues(map) == [ i \in 1..Len(map) |-> map[i].value ]

\* (result.keywordScore ?? 0) * keywordWeight
KeywordContribution(result, keywordWeight) ==
  JsMul(Coalesce(result, "keywordScore", Zero), keywordWeight)

\* variant of the semantic contribution: the weight left out
SemanticContribution_Unweighted(result, semanticWeight) ==
  Coalesce(result, "semanticScore", Zero)

\* (result.semanticScore ?? 0) * semanticWeight
SemanticContribution(result, semanticWeight) ==
  JsMul(Coalesce(result, "semanticScore", Zero), semanticWeight)

\* for (const result of keywordResults) combined.set(key, {...})
RECURSIVE SetKeywordResults(_, _, _)
SetKeywordResults(combined, keywordResults, keywordWeight) ==
  IF keywordResults = <<>> THEN combined
  ELSE LET result == Head(keywordResults)
           entry == [result EXCEPT !.score = KeywordContribution(result, keywordWeight),
                                   !.mode = "hybrid"]
       IN SetKeywordResults(MapSet(combined, ResultKey(result), entry),
                            Tail(keywordResults), keywordWeight)

\* for (const result of semanticResults) { existing ? existing.score += ... : combined.set(...) }
RECURSIVE AddSemanticResults(_, _, _)
AddSemanticResults(combined, semanticResults, semanticWeight) ==
  IF semanticResults = <<>> THEN combined
  ELSE LET result == Head(semanticResults)
           key == ResultKey(result)
           existing == MapGet(combined, key)
           semanticContribution == SemanticContribution(result, semanticWeight)
           entry ==
             IF existing # ABSENT
             THEN [semanticScore |-> result.semanticScore]
                    @@ [existing EXCEPT !.score = JsAdd(@, semanticContribution)]
             ELSE [keywordScore |-> Zero]
                    @@ [result EXCEPT !.score = semanticContribution, !.mode = "hybrid"]
       IN AddSemanticResults(MapSet(combined, key, entry), Tail(semanticResults), semanticWeight)

Combine(keywordResults, semanticResults, options) ==
  AddSemanticResults(
    SetKeywordResults(<<>>, keywordResults, Coalesce(options, "keywordWeight", DefaultKeywordWeight)),
    semanticResults, Coalesce(options, "semanticWeight", DefaultSemanticWeight))

\* variant of the sort: ascending
RECURSIVE SortByScore_Ascending(_)
SortByScore_Ascending(results) ==
  IF results = <<>> THEN <<>>
  ELSE LET sorted == SortByScore_Ascending(SubSeq(results, 1, Len(results) - 1))
           last == results[Len(results)]
           before == { i \in 1..Len(sorted) : ~Less(last.score, sorted[i].score) }
           k == Cardinality(before)
       IN SubSeq(sorted, 1, k) \o <<last>> \o SubSeq(sorted, k + 1, Len(sorted))

\* .sort((a, b) => b.score - a.score): stable, the larger score first
RECURSIVE SortByScore(_)
SortByScore(results) ==
  IF results = <<>> THEN <<>>
  ELSE LET sorted == SortByScore(SubSeq(results, 1, Len(results) - 1))
           last == results[Len(results)]
           before == { i \in 1..Len(sorted) : ~Less(sorted[i].score, last.score) }
           k == Cardinality(before)
       IN SubSeq(sorted, 1, k) \o <<last>> \o SubSeq(sorted, k + 1, Len(sorted))

\* -------------------------------------------------------- the search calls
SubSettled(sub) == sub.pc \in {"idle", "done", "failed"}

NoSearchActive ==
  /\ search.pc # "running"
  /\ SubSettled(search.keyword)
  /\ SubSettled(search.semantic)

\* getSqliteDb up to its first await: the handle when it is set, else the
\* caller waits for ensureDataLayout
getSqliteDb(sub) ==
  IF sqliteDb # ABSENT
  THEN [sub EXCEPT !.pc = "hasDb", !.db = sqliteDb]
  ELSE [sub EXCEPT !.pc = "ensureDataLayout"]

\* the queries: '', ' ' and the term 'fn'
TermQuery == <<102, 110>>
BlankQueries == {<<>>, <<32>>}
Queries == BlankQueries \cup {TermQuery}

\* search(query, mode, options), lines 185-192: the switch hands the query to
\* the sub-searches of the mode, which start and run to their first await
\* within the call
SearchCall(query, mode, options) ==
  [IdleSearch EXCEPT
     !.pc = "running", !.calls = search.calls + 1,
     !.query = query, !.mode = mode, !.options = options,
     !.keyword = IF mode \in {"keyword", "hybrid"} THEN getSqliteDb(IdleSub) ELSE IdleSub,
     !.semantic = IF mode \in {"semantic", "hybrid"} THEN getSqliteDb(IdleSub) ELSE IdleSub]

\* a direct call of the exported search
CallSearch(query, mode, options) ==
  /\ NoSearchActive
  /\ search.calls < MaxSearches
  /\ search' = SearchCall(query, mode, options)
  /\ UNCHANGED <<sqliteDb, connections, normalized, lance, retry, sniff, reset>>
  /\ UNCHANGED indexVars

\* queryParts.join(' ')
RECURSIVE Join(_)
Join(parts) ==
  IF parts = <<>> THEN <<>>
  ELSE IF Len(parts) = 1 THEN parts[1]
  ELSE parts[1] \o <<32>> \o Join(Tail(parts))

\* Number.parseInt(text, 10) of a text without white space or sign: the value
\* of its leading digits, NaN when it does not start with a digit
IsDigit(c) == c \in 48..57

RECURSIVE LeadingDigits(_)
LeadingDigits(text) ==
  IF text # <<>> /\ IsDigit(Head(text)) THEN <<Head(text)>> \o LeadingDigits(Tail(text)) ELSE <<>>

RECURSIVE DigitsValue(_)
DigitsValue(digits) ==
  IF digits = <<>> THEN 0
  ELSE 10 * DigitsValue(SubSeq(digits, 1, Len(digits) - 1)) + (digits[Len(digits)] - 48)

ParseInt(text) ==
  IF LeadingDigits(text) = <<>> THEN NaN ELSE Rat(DigitsValue(LeadingDigits(text)), 1)

\* Number.parseInt(options.limit ?? '20', 10) || 20
CliLimit(cliOptions) ==
  LET parsed == ParseInt(Coalesce(cliOptions, "limit", <<50, 48>>))
  IN IF parsed = NaN \/ parsed = Zero THEN 20 ELSE parsed.num

\* the command lines of `search`: the query words, --limit, --repo and the
\* mode flags
CliQueryParts == { << <<32>> >>, << <<>>, <<>> >>, << <<102, 110>> >>, << <<32, 102>>, <<110, 32>> >> }

CliOptions ==
  { l @@ r @@ m :
      l \in { <<>>, [limit |-> <<49>>], [limit |-> <<48>>], [limit |-> <<120>>] },
      r \in { <<>>, [repo |-> "app"] },
      m \in { [semantic |-> FALSE, hybrid |-> FALSE], [semantic |-> TRUE, hybrid |-> FALSE],
               [semantic |-> FALSE, hybrid |-> TRUE], [semantic |-> TRUE, hybrid |-> TRUE] } }

CliMode(cliOptions) ==
  IF cliOptions.hybrid THEN "hybrid"
  ELSE IF cliOptions.semantic THEN "semantic"
  ELSE "keyword"

\* the search command, cli.ts lines 108-127: after ensureDataLayout made the
\* data directories, a query that is empty once trimmed is reported, the exit
\* code is set and the action returns; any other goes to search
CmdSearch(queryParts, cliOptions) ==
  /\ NoSearchActive
  /\ search.calls < MaxSearches
  /\ LET query == Trim(Join(queryParts))
         repo == IF "repo" \in DOMAIN cliOptions THEN [repo |-> cliOptions.repo] ELSE <<>>
     IN search' =
          IF Len(query) = 0
          THEN [IdleSearch EXCEPT !.pc = "rejected", !.calls = search.calls + 1,
                                  !.query = query, !.exitCode = 1]
          ELSE SearchCall(query, CliMode(cliOptions), repo @@ [limit |-> CliLimit(cliOptions)])
  /\ UNCHANGED <<sqliteDb, connections, normalized, lance, retry, sniff, reset>>
  /\ UNCHANGED indexVars

\* getSqliteDb after ensureDataLayout: sqliteDb = new BetterSqlite3(...)
OpenStore(side) ==
  /\ search[side].pc = "ensureDataLayout"
  /\ connections' = connections + 1
  /\ sqliteDb' = [connection |-> connections + 1]
  /\ search' = [search EXCEPT ![side].pc = "hasDb", ![side].db = sqliteDb']
  /\ UNCHANGED <<normalized, lance, retry, sniff, reset>>
  /\ UNCHANGED indexVars

\* variant of the wait for the sub-searches: Promise.allSettled, a hybrid call
\* is not rejected by a rejected sub-search
PromiseAll_AllSettled(call, message) ==
  IF call.pc = "running" /\ call.mode # "hybrid"
  THEN [call EXCEPT !.pc = "failed", !.thrown = message]
  ELSE call

\* the call's promise: the sub-search's own, or Promise.all of the two, which
\* the first rejection rejects
PromiseAll(call, message) ==
  IF call.pc = "running"
  THEN [call EXCEPT !.pc = "failed", !.thrown = message]
  ELSE call

Reject(side, message) ==
  search' = PromiseAll([search EXCEPT ![side].pc = "failed", ![side].error = message], message)

\* ensureDataLayout or the opening of the database rejects
OpenStoreThrows(side) ==
  /\ search[side].pc = "ensureDataLayout"
  /\ Reject(side, "SQLITE_CANTOPEN")
  /\ UNCHANGED <<sqliteDb, connections, normalized, lance, retry, sniff, reset>>
  /\ UNCHANGED indexVars

\* file_fts MATCH ?: the full-text engine parses the query, and one without a
\* term is a syntax error
IsMatchExpression(query) == Len(Trim(query)) > 0

\* keywordSearch, lines 63-100: the rows the query matches, ranked and limited
KeywordQuery ==
  /\ search.keyword.pc = "hasDb"
  /\ IsMatchExpression(search.query)
  /\ \E matched \in SUBSET KeywordCandidates(search.options) :
       \E bm25 \in [matched -> EngineRanks] :
         LET limit == Coalesce(search.options, "limit", DEFAULT_LIMIT)
             rows == Take(OrderBy(matched, bm25), limit)
             results == KeywordResults(rows, bm25)
         IN search' =
              IF search.mode = "keyword"
              THEN [search EXCEPT !.keyword.pc = "done", !.keyword.results = results,
                                  !.pc = "done", !.result = results, !.returned = TRUE]
              ELSE [search EXCEPT !.keyword.pc = "done", !.keyword.results = results]
  /\ UNCHANGED <<sqliteDb, connections, normalized, lance, retry, sniff, reset>>
  /\ UNCHANGED indexVars

\* db.prepare(sql).all(...) throws
KeywordQueryThrows ==
  /\ search.keyword.pc = "hasDb"
  /\ Reject("keyword", "fts5: syntax error")
  /\ UNCHANGED <<sqliteDb, connections, normalized, lance, retry, sniff, reset>>
  /\ UNCHANGED indexVars

\* semanticSearch, lines 104-139: the nearest rows of the vector table, each
\* with the snippet that `file_fts MATCH query` gives for its path
SemanticQuery ==
  /\ search.semantic.pc = "hasDb"
  /\ LET candidates == SemanticCandidates(search.options) IN
     \E distance \in [candidates -> EngineDistances] :
       LET limit == Coalesce(search.options, "limit", DEFAULT_LIMIT)
           rows == Take(OrderBy(candidates, distance), limit)
           results == SemanticResults(rows, distance)
       IN /\ rows # <<>> => IsMatchExpression(search.query)
          /\ search' =
               IF search.mode = "semantic"
               THEN [search EXCEPT !.semantic.pc = "done", !.semantic.results = results,
                                   !.pc = "done", !.result = results, !.returned = TRUE]
               ELSE [search EXCEPT !.semantic.pc = "done", !.semantic.results = results]
  /\ UNCHANGED <<sqliteDb, connections, normalized, lance, retry, sniff, reset>>
  /\ UNCHANGED indexVars

\* getLanceTable, embedText, the vector search or the snippet statement rejects
SemanticQueryThrows ==
  /\ search.semantic.pc = "hasDb"
  /\ Reject("semantic", "vector search failed")
  /\ UNCHANGED <<sqliteDb, connections, normalized, lance, retry, sniff, reset>>
  /\ UNCHANGED indexVars

\* hybridSearch, lines 151-182: both sub-searches have returned
HybridFuse ==
  /\ search.pc = "running"
  /\ search.mode = "hybrid"
  /\ search.keyword.pc = "done"
  /\ search.semantic.pc = "done"
  /\ LET combined == Combine(search.keyword.results, search.semantic.results, search.options)
         limit == Coalesce(search.options, "limit", DEFAULT_LIMIT)
     IN search' = [search EXCEPT !.combined = combined,
                                 !.result = Take(SortByScore(MapValues(combined)), limit),
                                 !.returned = TRUE, !.pc = "done"]
  /\ UNCHANGED <<sqliteDb, connections, normalized, lance, retry, sniff, reset>>
  /\ UNCHANGED indexVars

\* The index the searches read: the tree holds both files, repository app:src
\* was indexed, then repository app.
IndexedFile == TextFile

IndexedMeta(id, repo, relativePath) ==
  [ id |-> id, repo |-> repo, path |-> relativePath, filename |-> getFilename(relativePath),
    mtime_ms |-> IndexedFile.mtimeMs, size_bytes |-> IndexedFile.size,
    hash |-> hashBuffer(IndexedFile) ]

IndexedFileMeta ==
  { IndexedMeta(1, "app:src", "src:x/a.ts"),
    IndexedMeta(2, "app:src", "x/a.ts"),
    IndexedMeta(3, "app", "src:x/a.ts"),
    IndexedMeta(4, "app", "x/a.ts") }

IndexedFileFts ==
  { [ rowid |-> m.id, repo |-> m.repo, path |-> m.path, filename |-> m.filename,
      contents |-> toContents(IndexedFile) ] : m \in IndexedFileMeta }

\* the run of app deleted id app:src:x/a.ts before it added its own row of that id
IndexedVectors ==
  SetToBag({ VectorRow(m.repo, [meta |-> m, embedding |-> embedText(toContents(IndexedFile))]) :
               m \in { r \in IndexedFileMeta : ~(r.repo = "app:src" /\ r.path = "x/a.ts") } })

IndexedRegistry ==
  { [repo |-> "app:src", source |-> NULL, last_indexed_ms |-> 1, last_error |-> NULL],
    [repo |-> "app", source |-> NULL, last_indexed_ms |-> 2, last_error |-> NULL] }

SearchInit ==
  /\ disk = [p \in Paths |-> IndexedFile]
  /\ now = 2
  /\ file_meta = IndexedFileMeta
  /\ file_fts = IndexedFileFts
  /\ repo_index = IndexedRegistry
  /\ vectors = IndexedVectors
  /\ run = IdleRun
  /\ dirty = [r \in Repos |-> FALSE]
  /\ sqliteDb = ABSENT
  /\ connections = 0
  /\ search = IdleSearch
  /\ normalized = ABSENT
  /\ lance = InitializedLance
  /\ retry = IdleRetry
  /\ sniff = ABSENT
  /\ reset = IdleReset

SearchNext ==
  \/ \E mode \in SearchModes, options \in SearchOptions : CallSearch(TermQuery, mode, options)
  \/ \E side \in {"keyword", "semantic"} : OpenStore(side)
  \/ \E side \in {"keyword", "semantic"} : OpenStoreThrows(side)
  \/ KeywordQuery
  \/ KeywordQueryThrows
  \/ SemanticQuery
  \/ SemanticQueryThrows
  \/ HybridFuse

SearchSpec == SearchInit /\ [][SearchNext]_vars

\* ------------------------------------- the searches on any query, and the CLI
\* The index these searches read: the tree holds x/a.ts only, repository app
\* was indexed.
QueryInit ==
  LET meta == IndexedMeta(1, "app", "x/a.ts") IN
  /\ disk = [p \in Paths |-> IF p = "x/a.ts" THEN IndexedFile ELSE ABSENT]
  /\ now = 1
  /\ file_meta = {meta}
  /\ file_fts = { [ rowid |-> meta.id, repo |-> meta.repo, path |-> meta.path,
                    filename |-> meta.filename, contents |-> toContents(IndexedFile) ] }
  /\ repo_index = { [repo |-> "app", source |-> NULL, last_indexed_ms |-> 1, last_error |-> NULL] }
  /\ vectors = SetToBag({ VectorRow(meta.repo, [meta |-> meta,
                                                  embedding |-> embedText(toContents(IndexedFile))]) })
  /\ run = IdleRun
  /\ dirty = [r \in Repos |-> r # "app"]
  /\ sqliteDb = ABSENT
  /\ connections = 0
  /\ search = IdleSearch
  /\ normalized = ABSENT
  /\ lance = InitializedLance
  /\ retry = IdleRetry
  /\ sniff = ABSENT
  /\ reset = IdleReset

QueryNext ==
  \/ \E query \in Queries, mode \in SearchModes, options \in SearchOptions :
       CallSearch(query, mode, options)
  \/ \E queryParts \in CliQueryParts, cliOptions \in CliOptions : CmdSearch(queryParts, cliOptions)
  \/ \E side \in {"keyword", "semantic"} : OpenStore(side)
  \/ \E side \in {"keyword", "semantic"} : OpenStoreThrows(side)
  \/ KeywordQuery
  \/ KeywordQueryThrows
  \/ SemanticQuery
  \/ SemanticQueryThrows
  \/ HybridFuse

QuerySpec == QueryInit /\ [][QueryNext]_vars

\* --------------------------------------------- the vector table's creation
MaxInitializations == 3

LANCE_TABLE_NAME == "files"
TEMPLATE_ID == "__template__"

\* the row createTable infers the schema from: empty texts, zeros, a zero vector
TemplateRow ==
  [ id |-> TEMPLATE_ID, repo |-> "", path |-> "", filename |-> "", mtime_ms |-> 0,
    size_bytes |-> 0, hash |-> <<>>, vector |-> [model |-> "zeros", input |-> <<>>] ]

\* a row of a table that has no vector column
WithoutVector(row) == [f \in DOMAIN row \ {"vector"} |-> row[f]]

\* the rows of the index, those of repository app only, or none
LanceRows ==
  { IndexedVectors,
    SetToBag({ row \in BagToSet(IndexedVectors) : row.repo = "app" }),
    EmptyBag }

\* What a process may find in the vector directory: no table, a table of the
\* index, or a table of such rows created without the vector column.
LanceDirectories ==
  { [files |-> ABSENT, rows |-> EmptyBag] }
    \cup { [files |-> [vectorColumn |-> TRUE], rows |-> rows] : rows \in LanceRows }
    \cup { [files |-> [vectorColumn |-> FALSE],
            rows |-> SetToBag({ WithoutVector(row) : row \in BagToSet(rows) })] :
              rows \in LanceRows }

LanceInit ==
  /\ disk = [p \in Paths |-> IndexedFile]
  /\ now = 2
  /\ file_meta = IndexedFileMeta
  /\ file_fts = IndexedFileFts
  /\ repo_index = IndexedRegistry
  /\ \E directory \in LanceDirectories :
       /\ vectors = directory.rows
       /\ lance = [files |-> directory.files, init |-> IdleInitialize]
  /\ run = IdleRun
  /\ dirty = [r \in Repos |-> FALSE]
  /\ sqliteDb = ABSENT
  /\ connections = 0
  /\ search = IdleSearch
  /\ normalized = ABSENT
  /\ retry = IdleRetry
  /\ sniff = ABSENT
  /\ reset = IdleReset

InitializeSettled == lance.init.pc \in {"idle", "returned", "failed"}

LanceFrame ==
  /\ UNCHANGED <<sqliteDb, connections, search, normalized, retry, sniff, reset>>
  /\ UNCHANGED <<disk, now, file_meta, file_fts, repo_index, run, dirty>>

\* lines 176-179: a process's first getLanceTable calls initializeLanceTable:
\* the connection, then tableNames()
InitializeLanceTable ==
  /\ InitializeSettled
  /\ lance.init.calls < MaxInitializations
  /\ lance' = [lance EXCEPT !.init =
       [IdleInitialize EXCEPT
          !.calls = lance.init.calls + 1,
          !.existing = lance.files,
          !.before = vectors,
          !.pc = IF lance.files # ABSENT THEN "openTable" ELSE "createTable"]]
  /\ UNCHANGED vectors
  /\ LanceFrame

\* lines 180-185: openTable, schema(); a table with a vector field is returned
OpenTable ==
  /\ lance.init.pc = "openTable"
  /\ lance' = IF lance.files.vectorColumn
              THEN [lance EXCEPT !.init.pc = "returned", !.init.table = LANCE_TABLE_NAME]
              ELSE [lance EXCEPT !.init.pc = "dropTable"]
  /\ UNCHANGED vectors
  /\ LanceFrame

\* lines 187-188: table.close(), connection.dropTable
DropTable ==
  /\ lance.init.pc = "dropTable"
  /\ lance' = [lance EXCEPT !.files = ABSENT, !.init.dropped = TRUE, !.init.pc = "createTable"]
  /\ vectors' = EmptyBag
  /\ LanceFrame

\* lines 193-207: createTable with the template row, mode 'create' and
\* existOk: the schema is that of the row
CreateTable ==
  /\ lance.init.pc = "createTable"
  /\ lance.files = ABSENT
  /\ lance' = [lance EXCEPT !.files = [vectorColumn |-> "vector" \in DOMAIN TemplateRow],
                            !.init.pc = "deleteTemplate"]
  /\ vectors' = SetToBag({TemplateRow})
  /\ LanceFrame

\* lines 209-210: table.delete("id = '__template__'"), then the table is returned
DeleteTemplate ==
  /\ lance.init.pc = "deleteTemplate"
  /\ vectors' = tableDelete(vectors, IdFilter(TEMPLATE_ID))
  /\ lance' = [lance EXCEPT !.init.pc = "returned", !.init.table = LANCE_TABLE_NAME]
  /\ LanceFrame

\* an await of the call rejects, or the process ends while it waits
InitializeThrows ==
  /\ ~InitializeSettled
  /\ lance' = [lance EXCEPT !.init.pc = "failed", !.init.thrown = "IO error"]
  /\ UNCHANGED vectors
  /\ LanceFrame

LanceNext ==
  \/ InitializeLanceTable
  \/ OpenTable
  \/ DropTable
  \/ CreateTable
  \/ DeleteTemplate
  \/ InitializeThrows

LanceSpec == LanceInit /\ [][LanceNext]_vars

\* ------------------------------------------------------ the retry wrapper
MaxRetryCalls == 2

MAX_RETRIES == 3
BACKOFF_BASE_MS == 10

RECURSIVE Pow2(_)
Pow2(n) == IF n = 0 THEN 1 ELSE 2 * Pow2(n - 1)

\* Math.pow(2, attempt) * 10
Delay(attempt) == Pow2(attempt) * BACKOFF_BASE_MS

\* errorMessage.includes(text), on a message given as the sequence of its parts
Includes(message, text) == \E k \in 1..Len(message) : message[k] = text

\* what refreshLanceTable or the operation may throw
ThrownErrors ==
  { [message |-> <<"Commit conflict">>],
    [message |-> <<"lance error: ", "Commit conflict", " for version 4">>],
    [message |-> <<"IO error">>] }

\* variant of the retry test: any error is retried
ShouldRetry_AnyError(error, attempt, maxRetries) == attempt < maxRetries - 1

\* errorMessage.includes('Commit conflict') && attempt < maxRetries - 1
ShouldRetry(error, attempt, maxRetries) ==
  Includes(error.message, "Commit conflict") /\ attempt < maxRetries - 1

\* the operations of deleteFromLanceTable(filter) and addToLanceTable(rows)
RetryOperations ==
  { [kind |-> "delete", filter |-> [column |-> "repo", equals |-> repo]] : repo \in Repos }
    \cup { [kind |-> "add",
            rows |-> << VectorRow("app:src", [meta |-> IndexedMeta(2, "app:src", "x/a.ts"),
                                              embedding |-> embedText(toContents(IndexedFile))]) >>] }

\* await operation(table)
ApplyOperation(operation, table) ==
  IF operation.kind = "delete"
  THEN tableDelete(table, operation.filter)
  ELSE tableAdd(table, operation.rows)

RetryInit == SearchInit

RetryFrame ==
  /\ UNCHANGED <<sqliteDb, connections, search, normalized, lance, sniff, reset>>
  /\ UNCHANGED <<disk, now, file_meta, file_fts, repo_index, run, dirty>>

RetrySettled == retry.pc \in {"idle", "returned", "failed"}

\* lines 245-248: deleteFromLanceTable or addToLanceTable calls
\* retryLanceOperation(operation); attempt = 0 passes the loop test
RetryLanceOperation(operation) ==
  /\ RetrySettled
  /\ retry.calls < MaxRetryCalls
  /\ retry' = [IdleRetry EXCEPT
       !.calls = retry.calls + 1, !.operation = operation,
       !.pc = IF 0 < MAX_RETRIES THEN "attempt" ELSE "failed",
       !.attempts = IF 0 < MAX_RETRIES THEN 1 ELSE 0,
       !.thrown = IF 0 < MAX_RETRIES THEN ABSENT
                  ELSE [message |-> <<"Operation failed after retries">>]]
  /\ UNCHANGED vectors
  /\ RetryFrame

\* lines 249-250: refreshLanceTable and the operation resolve, its result is returned
AttemptReturns ==
  /\ retry.pc = "attempt"
  /\ vectors' = ApplyOperation(retry.operation, vectors)
  /\ retry' = [retry EXCEPT !.pc = "returned"]
  /\ RetryFrame

\* lines 251-260: refreshLanceTable or the operation rejects: either the delay
\* is computed and the wrapper waits, or the error is thrown again
AttemptThrows(error) ==
  /\ retry.pc = "attempt"
  /\ retry' =
       IF ShouldRetry(error, retry.attempt, MAX_RETRIES)
       THEN [retry EXCEPT !.pc = "setTimeout", !.errors = Append(@, error),
                          !.delays = Append(@, Delay(retry.attempt))]
       ELSE [retry EXCEPT !.pc = "failed", !.errors = Append(@, error), !.thrown = error]
  /\ UNCHANGED vectors
  /\ RetryFrame

\* lines 256-258, 247, 264: the timer fires, lastError is set, attempt++ and the
\* loop test
TimerFires ==
  /\ retry.pc = "setTimeout"
  /\ LET lastError == retry.errors[Len(retry.errors)] IN
     retry' =
       IF retry.attempt + 1 < MAX_RETRIES
       THEN [retry EXCEPT !.pc = "attempt", !.lastError = lastError,
                          !.attempt = @ + 1, !.attempts = @ + 1]
       ELSE [retry EXCEPT !.pc = "failed", !.lastError = lastError,
                          !.attempt = @ + 1, !.thrown = lastError]
  /\ UNCHANGED vectors
  /\ RetryFrame

RetryNext ==
  \/ \E operation \in RetryOperations : RetryLanceOperation(operation)
  \/ AttemptReturns
  \/ \E error \in ThrownErrors : AttemptThrows(error)
  \/ TimerFires

RetrySpec == RetryInit /\ [][RetryNext]_vars

\* ------------------------------------------ the registry on any arguments
MaxTimestamp == 2

RegistrySources == {NULL, RemoteUrl}
RegistryErrors == {NULL, "Commit conflict"}

\* a call of the exported upsertRepoIndex(repo, source, timestamp, error)
UpsertRepoIndexCall(repo, source, timestamp, error) ==
  /\ repo_index' = upsertRepoIndex(repo_index, repo, source, timestamp, error)
  /\ UNCHANGED <<disk, now, file_meta, file_fts, vectors, run, dirty>>
  /\ UNCHANGED searchVars

RegistryNext ==
  \E repo \in Repos, source \in RegistrySources,
     timestamp \in 0..MaxTimestamp, error \in RegistryErrors :
    UpsertRepoIndexCall(repo, source, timestamp, error)

RegistrySpec == Init /\ [][RegistryNext]_vars

\* ------------------------------------------- the normalizers on any number
NormalizerInputs ==
  { Rat(n, 2) : n \in (-MaxHalves)..MaxHalves }
    \cup { NaN, PosInfinity, NegInfinity, UNDEFINED, JSNULL }

NormalizeKeyword(bm25) ==
  /\ normalized' = [ fn |-> "normalizeKeywordScore", argument |-> bm25,
                     score |-> normalizeKeywordScore(bm25) ]
  /\ UNCHANGED <<sqliteDb, connections, search, lance, retry, sniff, reset>>
  /\ UNCHANGED indexVars

NormalizeSemantic(distance) ==
  /\ normalized' = [ fn |-> "normalizeSemanticScore", argument |-> distance,
                     score |-> normalizeSemanticScore(distance) ]
  /\ UNCHANGED <<sqliteDb, connections, search, lance, retry, sniff, reset>>
  /\ UNCHANGED indexVars

NormalizeNext ==
  \/ \E bm25 \in NormalizerInputs : NormalizeKeyword(bm25)
  \/ \E distance \in NormalizerInputs : NormalizeSemantic(distance)

NormalizeSpec == Init /\ [][NormalizeNext]_vars

\* ------------------------------------------- the sniffing on any buffer
MaxBytesBeyondSample == 2

\* byte values on both sides of every comparison of the sniffing
ProbeBytes == {0, 1, 6, 7, 8, 9, 13, 14, 31, 32, 65, 127, 254, 255}

\* the largest number of bytes out of n that is not more than 30% of n
ThresholdCount(n) == (3 * n) \div 10

\* n bytes: the first k are `lead`, the others are the letter A, and those
\* after the sampled prefix are `tail`
Buffer(n, lead, k, tail) ==
  [ i \in 1..n |-> IF i > SAMPLE_BYTES THEN tail
                   ELSE IF i <= k THEN lead ELSE 65 ]

SniffInputs ==
  {<<>>}
    \cup { Buffer(n, lead, k, 65) : n \in {1, 10}, lead \in ProbeBytes, k \in 0..4 }
    \cup { Buffer(SAMPLE_BYTES + e, lead, k, tail) :
             e \in 0..MaxBytesBeyondSample, lead \in {0, 1, 255},
             k \in {0, 1, ThresholdCount(SAMPLE_BYTES), ThresholdCount(SAMPLE_BYTES) + 1},
             tail \in {0, 65, 255} }

IsBinaryBuffer(buffer) ==
  /\ sniff' = [ buffer |-> buffer, binary |-> isBinaryBuffer(buffer) ]
  /\ UNCHANGED <<sqliteDb, connections, search, normalized, lance, retry, reset>>
  /\ UNCHANGED indexVars

BinaryNext == \E buffer \in SniffInputs : IsBinaryBuffer(buffer)

BinarySpec == Init /\ [][BinaryNext]_vars

\* ------------------------------------------------ resetRepoData on an index
MaxResets == 2

\* the rows of a table that are not of the repository
WithoutRepo(table, repo) == { r \in table : r.repo # repo }

RepoFilter(repo) == [column |-> "repo", equals |-> repo]

\* an index of some of the files, with the vector rows of its FileRecords
ResetInit ==
  /\ disk = [p \in Paths |-> IndexedFile]
  /\ now = 2
  /\ \E metas \in SUBSET IndexedFileMeta :
       /\ file_meta = metas
       /\ file_fts = { f \in IndexedFileFts : \E m \in metas : f.rowid = m.id }
       /\ vectors = SetToBag({ row \in BagToSet(IndexedVectors) :
                                 \E m \in metas : m.repo = row.repo /\ m.path = row.path })
  /\ repo_index = IndexedRegistry
  /\ run = IdleRun
  /\ dirty = [r \in Repos |-> FALSE]
  /\ sqliteDb = ABSENT
  /\ connections = 0
  /\ search = IdleSearch
  /\ normalized = ABSENT
  /\ lance = InitializedLance
  /\ retry = IdleRetry
  /\ sniff = ABSENT
  /\ reset = IdleReset

ResetFrame ==
  /\ UNCHANGED <<sqliteDb, connections, search, normalized, lance, retry, sniff>>
  /\ UNCHANGED <<disk, now, run, dirty>>

ResetSettled == reset.pc \in {"idle", "returned", "failed"}

\* lines 214-219: the process uses the vector table (a search, an indexing
\* run): getLanceTable stores the promise in lanceTablePromise
GetLanceTable ==
  /\ ResetSettled
  /\ ~reset.lanceTablePromise
  /\ reset' = [reset EXCEPT !.lanceTablePromise = TRUE]
  /\ UNCHANGED <<file_meta, file_fts, repo_index, vectors>>
  /\ ResetFrame

\* lines 285-299: the three DELETE statements in one transaction, then the
\* test of lanceTablePromise
ResetRepoData(repo) ==
  /\ ResetSettled
  /\ reset.calls < MaxResets
  /\ file_meta' = WithoutRepo(file_meta, repo)
  /\ file_fts' = WithoutRepo(file_fts, repo)
  /\ repo_index' = WithoutRepo(repo_index, repo)
  /\ reset' = [reset EXCEPT !.repo = repo, !.calls = @ + 1, !.thrown = NULL,
                            !.pc = IF reset.lanceTablePromise THEN "deleteFromLanceTable"
                                   ELSE "returned"]
  /\ UNCHANGED vectors
  /\ ResetFrame

\* lines 300-301: await deleteFromLanceTable(`repo = '...'`)
ResetDeleteVectors ==
  /\ reset.pc = "deleteFromLanceTable"
  /\ vectors' = tableDelete(vectors, RepoFilter(reset.repo))
  /\ reset' = [reset EXCEPT !.pc = "returned"]
  /\ UNCHANGED <<file_meta, file_fts, repo_index>>
  /\ ResetFrame

\* deleteFromLanceTable rejects after its retries
ResetDeleteThrows ==
  /\ reset.pc = "deleteFromLanceTable"
  /\ reset' = [reset EXCEPT !.pc = "failed", !.thrown = "Commit conflict"]
  /\ UNCHANGED <<file_meta, file_fts, repo_index, vectors>>
  /\ ResetFrame

ResetNext ==
  \/ GetLanceTable
  \/ \E repo \in Repos : ResetRepoData(repo)
  \/ ResetDeleteVectors
  \/ ResetDeleteThrows

ResetSpec == ResetInit /\ [][ResetNext]_vars

\* ======================================================================
\* Properties
\* ======================================================================
Range(seq) == { seq[k] : k \in 1..Len(seq) }

RunActive == ~NoRunActive

\* the non-binary candidate files of the tree
TextCandidates == { p \in Paths : disk[p] # ABSENT /\ ~isBinaryBuffer(disk[p].prefix) }

MetaOf(repo, p) == { m \in file_meta : m.repo = repo /\ m.path = p }
FtsOf(repo, p) == { f \in file_fts : f.repo = repo /\ f.path = p }
VectorsOf(repo, p) ==
  { [row |-> row, copies |-> vectors[row]] :
      row \in { r \in DOMAIN vectors : r.id = toVectorId(repo, p) } }

EmbeddedPaths == { c.path : c \in Range(run.embedCalls) }

\* C1 (idempotence): a run with force=false that completes on a tree that was
\* not edited since the repository's previous committed run reports
\* filesIndexed = 0, filesDeleted = 0 and filesSkippedUnchanged = N, the number
\* of non-binary candidate files.
C1_Idempotence ==
  (run.pc = "done" /\ ~run.force /\ run.treeUnchanged) =>
     /\ run.summary.filesIndexed = 0
     /\ run.summary.filesDeleted = 0
     /\ run.summary.filesSkippedUnchanged = Cardinality(TextCandidates)

C1_Witness ==
  /\ run.pc = "done" /\ ~run.force /\ run.treeUnchanged
  /\ Cardinality(TextCandidates) = 2
  /\ run.summary.filesSkippedUnchanged = 2

\* C2 (frame): during a run with force=false, a candidate whose stored hash
\* equals the hash of its bytes on disk is never passed to the embedding
\* service, and no step of the run changes its FileRecord, TextIndexEntry or
\* VectorEntry.
\* the record the run loaded for p carries the hash of p's bytes on disk
StoredHashCurrent(p) ==
  /\ disk[p] # ABSENT
  /\ \E e \in Range(run.existingRecords) : e.path = p /\ e.hash = hashBuffer(disk[p])

C2_UnchangedUntouched ==
  [][ (RunActive /\ ~run.force) =>
        \A p \in Paths :
          StoredHashCurrent(p) =>
            /\ p \notin EmbeddedPaths'
            /\ MetaOf(run.repoName, p)' = MetaOf(run.repoName, p)
            /\ FtsOf(run.repoName, p)' = FtsOf(run.repoName, p)
            /\ VectorsOf(run.repoName, p)' = VectorsOf(run.repoName, p) ]_vars

\* a run that skipped one file as unchanged and re-indexed another has completed
C2_Witness ==
  /\ run.pc = "done" /\ ~run.force
  /\ run.unchangedSkipped = 1
  /\ Len(run.pendingUpdates) = 1
  /\ \E p \in Paths : StoredHashCurrent(p) /\ p \notin EmbeddedPaths
                      /\ VectorsOf(run.repoName, p) # {}

\* C3 (deletion propagation): when a run completes, every record that existed
\* at its start and whose file the scan no longer lists has no FileRecord, no
\* TextIndexEntry and no VectorEntry left and is counted in filesDeleted; the
\* repository's file count is the count before the run, minus one per deleted
\* record, plus one per newly indexed path.
GoneRecords == { e \in Range(run.existingRecords) : e.path \notin Range(run.entries) }
NewPaths ==
  { u.meta.path : u \in Range(run.pendingUpdates) }
    \ { e.path : e \in Range(run.existingRecords) }

C3_DeletionPropagation ==
  run.pc = "done" =>
    /\ \A e \in GoneRecords :
         /\ MetaOf(run.repoName, e.path) = {}
         /\ FtsOf(run.repoName, e.path) = {}
         /\ VectorsOf(run.repoName, e.path) = {}
         /\ \E d \in Range(run.removedRecords) : d.path = e.path /\ d.id = e.id
    /\ run.summary.filesDeleted >= Cardinality(GoneRecords)
    /\ FileCount(run.repoName)
         = Len(run.existingRecords) - run.summary.filesDeleted + Cardinality(NewPaths)
    /\ \A r \in Range(listRepoIndex) : r.repo = run.repoName =>
         r.file_count = Len(run.existingRecords) - run.summary.filesDeleted + Cardinality(NewPaths)

\* a run completed after an indexed file was removed from disk, nothing new indexed
C3_Witness ==
  /\ run.pc = "done"
  /\ Cardinality(GoneRecords) = 1
  /\ run.summary.filesDeleted = 1
  /\ NewPaths = {}
  /\ FileCount(run.repoName) = Len(run.existingRecords) - 1

\* C4 (atomicity): the transaction step of a run either commits every staged
\* FileRecord upsert, TextIndexEntry replacement and staged deletion, leaving
\* all other rows as they were, or fails and leaves file_meta and file_fts
\* exactly as before.
StagedDeletions == { e \in Range(run.existingRecords) : e.path \notin run.seenPaths }
StagedPaths ==
  { u.meta.path : u \in Range(run.pendingUpdates) } \cup { e.path : e \in StagedDeletions }
Unstaged(rows) == { r \in rows : ~(r.repo = run.repoName /\ r.path \in StagedPaths) }

C4_TransactionAtomic ==
  [][ ScanFinished =>
        LET AllCommitted ==
              /\ \A u \in Range(run.pendingUpdates) :
                   \E m \in file_meta' :
                     /\ m.repo = run.repoName /\ m.path = u.meta.path
                     /\ m.hash = u.meta.hash /\ m.filename = u.meta.filename
                     /\ m.mtime_ms = u.meta.mtime_ms /\ m.size_bytes = u.meta.size_bytes
                     /\ { f \in file_fts' : f.rowid = m.id \/ (f.repo = m.repo /\ f.path = m.path) }
                          = { [rowid |-> m.id, repo |-> m.repo, path |-> m.path,
                               filename |-> m.filename, contents |-> u.contents] }
              /\ \A e \in StagedDeletions :
                   /\ \A m \in file_meta' :
                        m.id # e.id /\ ~(m.repo = run.repoName /\ m.path = e.path)
                   /\ \A f \in file_fts' :
                        f.rowid # e.id /\ ~(f.repo = run.repoName /\ f.path = e.path)
              /\ Unstaged(file_meta') = Unstaged(file_meta)
              /\ Unstaged(file_fts') = Unstaged(file_fts)
            NoneCommitted == file_meta' = file_meta /\ file_fts' = file_fts
        IN \/ run'.pc # "failed" /\ AllCommitted
           \/ run'.pc = "failed" /\ NoneCommitted ]_vars

\* a transaction with staged statements failed on a store that holds rows
C4_Witness ==
  /\ run.pc = "failed" /\ run.thrown = "SQLITE_FULL"
  /\ file_meta # {}
  /\ file_fts # {}

\* C5 (one text entry per record): in every state each FileRecord has exactly
\* one TextIndexEntry with its id as rowid, for the same repository and path,
\* and every TextIndexEntry belongs to a FileRecord.
C5_OneTextEntryPerRecord ==
  /\ \A m \in file_meta :
       /\ Cardinality({ f \in file_fts : f.rowid = m.id }) = 1
       /\ \A f \in file_fts : f.rowid = m.id => f.repo = m.repo /\ f.path = m.path
  /\ \A f \in file_fts : \E m \in file_meta : m.id = f.rowid

\* a forced run that also deleted a record has completed
C5_Witness ==
  /\ run.pc = "done" /\ run.force
  /\ run.removedRecords # <<>>
  /\ run.pendingUpdates # <<>>
  /\ file_meta # {}

\* C6 (unique, stable identity): file_meta never holds two rows for one
\* (repository, path) nor two rows with one id; no step changes the id of the
\* row of a (repository, path); a committed update of an existing record sets
\* its hash, size, mtime and filename and keeps its id.
C6_Unique ==
  \A m, n \in file_meta :
    ((m.repo = n.repo /\ m.path = n.path) \/ m.id = n.id) => m = n

C6_UniqueStableIdentity ==
  /\ []C6_Unique
  /\ [][ /\ \A m \in file_meta, n \in file_meta' :
              (m.repo = n.repo /\ m.path = n.path) => m.id = n.id
         /\ (ScanFinished /\ run'.pc # "failed") =>
              \A u \in Range(run.pendingUpdates), e \in Range(run.existingRecords) :
                u.meta.path = e.path =>
                  [id |-> e.id, repo |-> run.repoName, path |-> e.path,
                   filename |-> u.meta.filename, mtime_ms |-> u.meta.mtime_ms,
                   size_bytes |-> u.meta.size_bytes, hash |-> u.meta.hash] \in file_meta' ]_vars

\* a changed file was re-indexed next to another record, its row kept its id
C6_Witness ==
  /\ run.pc = "done"
  /\ Cardinality(file_meta) >= 2
  /\ \E u \in Range(run.pendingUpdates), e \in Range(run.existingRecords) :
       /\ u.meta.path = e.path /\ u.meta.hash # e.hash
       /\ \E m \in file_meta : m.id = e.id /\ m.path = e.path /\ m.hash = u.meta.hash

\* C7 (convergence), as claimed: after any completed run of R the vector ids
\* of R are exactly the ids of R's FileRecords, whatever earlier runs did.
C7_ConvergesAfterAnyRun ==
  run.pc = "done" => VectorsAgree(run.repoName)

\* C7, amended: a completed run of R leaves exactly one VectorEntry, carrying
\* the committed hash, for every path it updated and none for every path it
\* removed; the vector ids of R equal the ids of R's FileRecords after the run
\* if they did when the run started.
RowsOfPath(repo, p) == { r \in DOMAIN vectors : r.repo = repo /\ r.path = p }

C7_ConvergesForStagedPaths ==
  run.pc = "done" =>
    /\ \A u \in Range(run.pendingUpdates) :
         /\ \E row \in RowsOfPath(run.repoName, u.meta.path) :
              /\ RowsOfPath(run.repoName, u.meta.path) = {row}
              /\ vectors[row] = 1
              /\ row.id = toVectorId(run.repoName, u.meta.path)
              /\ row.hash = u.meta.hash
              /\ row.vector = embedText(u.contents)
         /\ \E m \in MetaOf(run.repoName, u.meta.path) : m.hash = u.meta.hash
    /\ \A d \in Range(run.removedRecords) :
         /\ RowsOfPath(run.repoName, d.path) = {}
         /\ MetaOf(run.repoName, d.path) = {}
    /\ run.vectorsAgreed => VectorsAgree(run.repoName)

\* a run that updated one path and removed another completed on agreeing stores
C7_Witness ==
  /\ run.pc = "done" /\ run.vectorsAgreed
  /\ run.pendingUpdates # <<>>
  /\ run.removedRecords # <<>>
  /\ run.existingRecords # <<>>

\* C8 (one vector per id): in every state the vector table holds at most one
\* row per composite id.
C8_OneVectorPerId ==
  \A r1, r2 \in DOMAIN vectors :
    /\ vectors[r1] = 1
    /\ r1.id = r2.id => r1 = r2

\* a forced run re-indexed an unchanged file whose vector was in the table
C8_Witness ==
  /\ run.pc = "done" /\ run.force /\ run.vectorsAgreed
  /\ \E u \in Range(run.pendingUpdates), e \in Range(run.existingRecords) :
       /\ u.meta.path = e.path /\ u.meta.hash = e.hash
       /\ RowsOfPath(run.repoName, e.path) # {}

\* C9 (failure recorded), as claimed: when a run has failed, the registry row
\* of its repository carries the failure message in last_error.
C9_FailureRecordedInRegistry ==
  run.pc = "failed" =>
    \E r \in repo_index : r.repo = run.repoName /\ r.last_error = run.thrown

\* C10 (registry upsert on success): the registry changes only in the step
\* that completes a run; that step leaves exactly one row for the repository,
\* holding the run's source, the current time and no error, leaves the other
\* rows and all stores as they are, and is taken only when every staged update
\* and deletion is in file_meta and in the vector table.
C10_RegistryUpsertLast ==
  [][ (repo_index' # repo_index \/ (run'.pc = "done" /\ run.pc # "done")) =>
        /\ run.pc = "registry" /\ run'.pc = "done"
        /\ { r \in repo_index' : r.repo = run.repoName }
             = { [repo |-> run.repoName, source |-> run.source,
                  last_indexed_ms |-> now, last_error |-> NULL] }
        /\ { r \in repo_index' : r.repo # run.repoName }
             = { r \in repo_index : r.repo # run.repoName }
        /\ UNCHANGED <<file_meta, file_fts, vectors>>
        /\ \A u \in Range(run.pendingUpdates) :
             /\ \E m \in MetaOf(run.repoName, u.meta.path) : m.hash = u.meta.hash
             /\ \E row \in DOMAIN vectors :
                  row.id = toVectorId(run.repoName, u.meta.path) /\ row.hash = u.meta.hash
        /\ \A d \in Range(run.removedRecords) :
             /\ MetaOf(run.repoName, d.path) = {}
             /\ VectorsOf(run.repoName, d.path) = {} ]_vars

\* a run started by `add` that updated and removed records has completed
C10_Witness ==
  /\ run.pc = "done" /\ run.source = RemoteUrl
  /\ run.pendingUpdates # <<>>
  /\ run.removedRecords # <<>>
  /\ \E r \in repo_index :
       r.repo = run.repoName /\ r.source = RemoteUrl /\ r.last_indexed_ms = now
       /\ r.last_error = NULL

\* C11 (read failure skipped), as claimed: a candidate that cannot be read is
\* skipped and the run goes on, so no run ever ends failed with the read error.
C11_ReadFailureSkipsFile ==
  ~(run.pc = "failed" /\ run.thrown = "EACCES: permission denied")

\* C12 (conflict retry), as claimed: a commit conflict reported to a vector
\* delete or insert of a run is retried; no step in which the store reports
\* the first conflict of a mutation ends the run failed with that conflict.
C12_FirstConflictRetried ==
  [][ run.pc \in {"deleteRemoved", "deleteUpdated", "add"} =>
        ~(run'.pc = "failed" /\ run'.thrown = "Commit conflict") ]_vars

\* C13 (binary exclusion): the step that processes a candidate whose first
\* 1024 bytes contain a null byte adds 1 to the binary counter and passes
\* nothing to the embedding service nor to the staged updates; no step of the
\* run adds or changes a FileRecord, TextIndexEntry or VectorEntry of such a
\* candidate.
HasNullByte(file) ==
  \E k \in 1..Min(Len(file.prefix), SAMPLE_BYTES) : file.prefix[k] = 0

NullByteCandidates == { p \in Range(run.entries) : HasNullByte(disk[p]) }

C13_BinaryExclusion ==
  [][ RunActive =>
        /\ (Scanning /\ HasNullByte(CurrentBuffer) /\ run'.pc # "failed") =>
             /\ run'.binarySkipped = run.binarySkipped + 1
             /\ run'.embedCalls = run.embedCalls
             /\ run'.pendingUpdates = run.pendingUpdates
             /\ run'.unchangedSkipped = run.unchangedSkipped
        /\ \A p \in NullByteCandidates :
             /\ p \notin EmbeddedPaths'
             /\ \A u \in Range(run'.pendingUpdates) : u.meta.path # p
             /\ MetaOf(run.repoName, p)' \subseteq MetaOf(run.repoName, p)
             /\ FtsOf(run.repoName, p)' \subseteq FtsOf(run.repoName, p)
             /\ \A row \in RowsOfPath(run.repoName, p)' :
                  row \in RowsOfPath(run.repoName, p) /\ vectors'[row] <= vectors[row]
        /\ run'.pc = "done" =>
             run'.summary.filesSkippedBinary >= Cardinality(NullByteCandidates) ]_vars

\* a run skipped a binary candidate, indexed a text file and completed
C13_Witness ==
  /\ run.pc = "done"
  /\ Cardinality(NullByteCandidates) = 1
  /\ run.summary.filesSkippedBinary = 1
  /\ run.summary.filesIndexed = 1

\* C14 (hash sensitivity): two file versions that agree on the capped prefix
\* and differ beyond it have different hashes; the step that processes a text
\* candidate whose stored hash is the hash of such another version stages it
\* with the hash of the full bytes and with text and embedding of the capped
\* prefix; a completed run counts it in filesIndexed and the stores hold that
\* hash, text and embedding.
SamePrefixOtherBytes(existing, file) ==
  /\ existing # ABSENT
  /\ \E v \in FileVersions :
       /\ existing.hash = hashBuffer(v)
       /\ v.prefix = file.prefix
       /\ v.rest # file.rest

C14_HashSensitivity ==
  /\ [](\A v, w \in FileVersions :
          (v.prefix = w.prefix /\ v.rest # w.rest) => hashBuffer(v) # hashBuffer(w))
  /\ [][ ( /\ Scanning
           /\ ~isBinaryBuffer(CurrentBuffer.prefix)
           /\ SamePrefixOtherBytes(ExistingByPath(run.existingRecords, CurrentPath), CurrentBuffer)
           /\ run'.pc # "failed" ) =>
          /\ Len(run'.pendingUpdates) = Len(run.pendingUpdates) + 1
          /\ LET u == run'.pendingUpdates[Len(run'.pendingUpdates)] IN
               /\ u.meta.path = CurrentPath
               /\ u.meta.hash = <<"sha256", CurrentBuffer.prefix, CurrentBuffer.rest>>
               /\ u.contents = CurrentBuffer.prefix
               /\ u.embedding = embedText(CurrentBuffer.prefix)
          /\ run'.unchangedSkipped = run.unchangedSkipped ]_vars
  /\ [](run.pc = "done" =>
          /\ run.summary.filesIndexed = Len(run.pendingUpdates)
          /\ \A u \in Range(run.pendingUpdates) :
               /\ u.meta.hash = <<"sha256", disk[u.meta.path].prefix, disk[u.meta.path].rest>>
               /\ \E m \in MetaOf(run.repoName, u.meta.path) : m.hash = u.meta.hash
               /\ \A f \in FtsOf(run.repoName, u.meta.path) :
                    f.contents = disk[u.meta.path].prefix
               /\ \A row \in RowsOfPath(run.repoName, u.meta.path) :
                    row.vector = embedText(disk[u.meta.path].prefix))

\* a run without force re-indexed a file that changed only beyond the cap
C14_Witness ==
  /\ run.pc = "done" /\ ~run.force
  /\ \E u \in Range(run.pendingUpdates) :
       /\ SamePrefixOtherBytes(ExistingByPath(run.existingRecords, u.meta.path),
                               disk[u.meta.path])
       /\ \E f \in FtsOf(run.repoName, u.meta.path) : f.contents = disk[u.meta.path].prefix

\* ----------------------------------------------------------------- search
Sides == {"keyword", "semantic"}
HybridDone == search.pc = "done" /\ search.mode = "hybrid"
KeywordHits == Range(search.keyword.results)
SemanticHits == Range(search.semantic.results)
CombinedEntries == Range(MapValues(search.combined))
SamePath(a, b) == a.repo = b.repo /\ a.path = b.path
KeywordWeight == Coalesce(search.options, "keywordWeight", Rat(2, 5))
SemanticWeight == Coalesce(search.options, "semanticWeight", Rat(3, 5))
DefaultWeights ==
  /\ "keywordWeight" \notin DOMAIN search.options
  /\ "semanticWeight" \notin DOMAIN search.options
AtLeast(a, b) == ~Less(a, b)

\* C15 (single connection), as claimed: whatever the interleaving of the
\* callers of getSqliteDb, at most one connection is ever created and every
\* caller that has its handle holds the connection the module holds.
C15_SingleConnection ==
  /\ connections <= 1
  /\ \A side \in Sides : search[side].db # ABSENT => search[side].db = sqliteDb

\* C16 (union by repository and path), as claimed: when hybridSearch has fused
\* the sub-results, every (repository, path) returned by either sub-search has
\* exactly one entry in the union before truncation, with score
\* keywordScore*keywordWeight, semanticScore*semanticWeight, or their sum when
\* both sub-searches returned it.
ExpectedScore(hit) ==
  LET k == { h \in KeywordHits : SamePath(h, hit) }
      m == { h \in SemanticHits : SamePath(h, hit) }
      kPart == IF k = {} THEN Zero ELSE JsMul((CHOOSE h \in k : TRUE).keywordScore, KeywordWeight)
      mPart == IF m = {} THEN Zero ELSE JsMul((CHOOSE h \in m : TRUE).semanticScore, SemanticWeight)
  IN JsAdd(kPart, mPart)

C16_UnionByRepoAndPath ==
  HybridDone =>
    \A hit \in KeywordHits \cup SemanticHits :
      /\ Cardinality({ i \in 1..Len(search.combined) :
                         SamePath(search.combined[i].value, hit) }) = 1
      /\ \A e \in CombinedEntries : SamePath(e, hit) => e.score = ExpectedScore(hit)

\* C17 (sorted and truncated): the list hybridSearch returns is in
\* non-increasing order of score, holds min(limit, size of the union) entries
\* of the union (limit 20 when none is given), and no entry of the union left
\* out has a higher score than a returned one.
C17_SortedAndTruncated ==
  HybridDone =>
    LET limit == IF "limit" \in DOMAIN search.options THEN search.options.limit ELSE 20
        result == search.result
    IN /\ \A i \in 1..(Len(result) - 1) : AtLeast(result[i].score, result[i + 1].score)
       /\ Len(result) <= limit
       /\ Len(result) = Min(Len(search.combined), limit)
       /\ Range(result) \subseteq CombinedEntries
       /\ Cardinality(Range(result)) = Len(result)
       /\ \A e \in CombinedEntries \ Range(result), r \in Range(result) :
            AtLeast(r.score, e.score)

\* a union of three entries with different scores was cut to two
C17_Witness ==
  /\ HybridDone
  /\ Len(search.combined) = 3
  /\ Len(search.result) = 2
  /\ Less(search.result[2].score, search.result[1].score)
  /\ \E e \in CombinedEntries \ Range(search.result) : Less(e.score, search.result[2].score)
  /\ Less(search.combined[1].value.score, search.combined[2].value.score)

\* C18 (score bounds), as claimed: whatever number, or none, a normalizer is
\* given, the score it returns is a number greater than 0 and at most 1.
C18_ScoreInUnitInterval ==
  normalized # ABSENT =>
    /\ IsFinite(normalized.score)
    /\ Less(Zero, normalized.score)
    /\ AtLeast(One, normalized.score)

\* C19 (hybrid against single mode), as claimed: with default weights the
\* hybrid score of a file that both sub-searches returned is at least its
\* keyword score and at least its semantic score.
C19_HybridAtLeastEitherMode ==
  (HybridDone /\ DefaultWeights) =>
    \A kh \in KeywordHits, sh \in SemanticHits, e \in CombinedEntries :
      (SamePath(kh, sh) /\ SamePath(e, kh)) =>
        /\ AtLeast(e.score, kh.score)
        /\ AtLeast(e.score, sh.score)

\* C19, amended: with default weights the entry of the union for a file that
\* both sub-searches returned has score 0.4*keywordScore + 0.6*semanticScore:
\* at least the smaller and at most the larger of its two single-mode scores,
\* and at least both only when they are equal.
C19_HybridIsWeightedMean ==
  (HybridDone /\ DefaultWeights) =>
    \A kh \in KeywordHits, sh \in SemanticHits, e \in CombinedEntries :
      (SamePath(kh, sh) /\ SamePath(e, kh)) =>
        /\ e.score = JsAdd(JsMul(kh.score, Rat(2, 5)), JsMul(sh.score, Rat(3, 5)))
        /\ AtLeast(e.score, kh.score) \/ AtLeast(e.score, sh.score)
        /\ AtLeast(kh.score, e.score) \/ AtLeast(sh.score, e.score)
        /\ (AtLeast(e.score, kh.score) /\ AtLeast(e.score, sh.score)) <=> kh.score = sh.score

\* a file returned by both has a hybrid score below its keyword score
C19_Witness ==
  /\ HybridDone /\ DefaultWeights
  /\ \E kh \in KeywordHits, sh \in SemanticHits, e \in CombinedEntries :
       /\ SamePath(kh, sh) /\ SamePath(e, kh)
       /\ Less(sh.score, kh.score)
       /\ Less(Zero, sh.score)
       /\ Less(e.score, kh.score)
       /\ Less(sh.score, e.score)

\* C20 (hybrid failure): the step in which a sub-search of a running hybrid
\* call fails makes the call fail with that error; a hybrid call with a failed
\* sub-search is failed with the error of a failed sub-search, has returned no
\* list, and stays so.
C20_HybridFailsWithSubSearch ==
  /\ [](\A side \in Sides :
          (search.mode = "hybrid" /\ search[side].pc = "failed") =>
             /\ search.pc = "failed"
             /\ ~search.returned
             /\ search.result = <<>>
             /\ \E other \in Sides :
                  search[other].pc = "failed" /\ search[other].error = search.thrown)
  /\ [][ \A side \in Sides :
           ( /\ search.mode = "hybrid" /\ search.pc = "running"
             /\ search[side].pc # "failed" /\ search'[side].pc = "failed" ) =>
                /\ search'.pc = "failed"
                /\ search'.thrown = search'[side].error
                /\ search'.thrown # NULL ]_vars
  /\ [][ (search.mode = "hybrid" /\ search.pc = "failed" /\ search'.calls = search.calls) =>
           /\ search'.pc = "failed"
           /\ search'.thrown = search.thrown
           /\ ~search'.returned ]_vars

\* the keyword sub-search failed after the semantic one had returned hits
C20_Witness ==
  /\ search.mode = "hybrid"
  /\ search.pc = "failed"
  /\ search.keyword.pc = "failed"
  /\ search.semantic.pc = "done"
  /\ search.semantic.results # <<>>
  /\ search.thrown = "fts5: syntax error"

\* C21 (blank query), as claimed: a search whose query is empty or only white
\* space, from the CLI or by a direct call of search, is rejected with no
\* sub-search started: the metadata+text store is not opened or read, the
\* vector table is not searched and no text is embedded.
C21_BlankQueryRejected ==
  (search.pc # "idle" /\ Len(Trim(search.query)) = 0)
    => /\ search.pc = "rejected"
       /\ search.keyword = IdleSub
       /\ search.semantic = IdleSub
       /\ search.calls = 1 => connections = 0

\* C22 (registry listing): in every state, also after a run that failed between
\* the metadata commit and the registry upsert, listRepoIndex returns one entry
\* per registry row, in ascending order of the repository name, and each
\* entry's file_count is the number of FileRecords stored for its repository.
C22_ListingSortedAndCounted ==
  LET listing == listRepoIndex IN
  /\ Len(listing) = Cardinality(repo_index)
  /\ \A r \in repo_index : \E k \in 1..Len(listing) :
       /\ listing[k].repo = r.repo
       /\ listing[k].source = r.source
       /\ listing[k].last_indexed_ms = r.last_indexed_ms
       /\ listing[k].last_error = r.last_error
  /\ \A i, j \in 1..Len(listing) :
       i < j => BinaryLess(Utf8(listing[i].repo), Utf8(listing[j].repo))
  /\ \A k \in 1..Len(listing) :
       listing[k].file_count
         = Cardinality({ fm \in file_meta : fm.repo = listing[k].repo })

\* both repositories are registered, app after app:src, and a later run of one
\* of them failed in the vector phase, after its commit
C22_Witness ==
  /\ run.pc = "failed"
  /\ run.thrown = "Commit conflict"
  /\ \E fm \in file_meta : fm.repo = run.repoName
  /\ Len(listRepoIndex) = 2
  /\ listRepoIndex[1].repo = "app"
  /\ listRepoIndex[1].last_indexed_ms > listRepoIndex[2].last_indexed_ms
  /\ \E k \in 1..2 : listRepoIndex[k].repo = run.repoName

\* C23 (registry upsert): a call of upsertRepoIndex leaves a registry that a
\* second call with the same arguments does not change; the registry holds the
\* row of the arguments and no other row of that repository, and the rows of
\* the other repositories are those it held before the call.
C23_UpsertIdempotent ==
  [][ \A repo \in Repos, source \in RegistrySources,
         timestamp \in 0..MaxTimestamp, error \in RegistryErrors :
        repo_index' = upsertRepoIndex(repo_index, repo, source, timestamp, error)
          => /\ upsertRepoIndex(repo_index', repo, source, timestamp, error) = repo_index'
             /\ { r \in repo_index' : r.repo = repo }
                  = { [repo |-> repo, source |-> source, last_indexed_ms |-> timestamp,
                       last_error |-> error] }
             /\ \A a, b \in repo_index' : a.repo = b.repo => a = b
             /\ { r \in repo_index' : r.repo # repo } = { r \in repo_index : r.repo # repo }
    ]_vars

\* both repositories are registered, one by an insert with an error text, the
\* other with a source and the latest timestamp
C23_Witness ==
  /\ Cardinality(repo_index) = 2
  /\ \E r \in repo_index : r.last_error # NULL /\ r.source = NULL
  /\ \E r \in repo_index : r.source = RemoteUrl /\ r.last_indexed_ms = MaxTimestamp

\* C24 (schema drift), as claimed: a table found without a vector column is
\* dropped and recreated, a table found with one is returned with its rows
\* untouched, and every table initializeLanceTable returns has the vector
\* column and holds no row with id '__template__'.
C24_SchemaDriftRecovery ==
  lance.init.pc = "returned" =>
    /\ lance.files # ABSENT
    /\ lance.files.vectorColumn
    /\ \A row \in BagToSet(vectors) : row.id # TEMPLATE_ID
    /\ (lance.init.existing # ABSENT /\ ~lance.init.existing.vectorColumn)
         => (lance.init.dropped /\ vectors = EmptyBag)
    /\ (lance.init.existing # ABSENT /\ lance.init.existing.vectorColumn)
         => (~lance.init.dropped /\ vectors = lance.init.before)

\* C25 (convergence gap): a run with force=false over a tree that was not
\* edited since the repository's last commit stages nothing and writes nothing
\* to the vector table, and when it completes it has counted every text
\* candidate as unchanged: a file whose FileRecord was committed by a run that
\* failed before inserting its VectorEntry stays without one. A run with
\* force=true that completes leaves every text candidate a VectorEntry with
\* the hash of its bytes.
C25_GapPersistsUntilForced ==
  [][ /\ (RunActive /\ ~run.force /\ run.treeUnchanged) =>
           /\ vectors' = vectors
           /\ run'.pendingUpdates = <<>>
           /\ run'.pc = "done" => run'.summary.filesSkippedUnchanged = Cardinality(TextCandidates)
      /\ (RunActive /\ run.force /\ run'.pc = "done") =>
           \A p \in TextCandidates :
             \E row \in DOMAIN vectors' :
               /\ row.id = toVectorId(run.repoName, p)
               /\ row.hash = hashBuffer(disk[p])
    ]_vars

\* only one repository was ever committed; a run of it with force=false has
\* completed on the unchanged tree, counted a file as unchanged whose
\* FileRecord carries the hash of its bytes, and the file has no VectorEntry
C25_Witness ==
  /\ run.pc = "done" /\ ~run.force /\ run.treeUnchanged
  /\ \A m \in file_meta : m.repo = run.repoName
  /\ \A r \in repo_index : r.repo = run.repoName
  /\ \E p \in TextCandidates :
       /\ \E m \in MetaOf(run.repoName, p) : m.hash = hashBuffer(disk[p])
       /\ \A row \in DOMAIN vectors : row.id # toVectorId(run.repoName, p)
       /\ run.summary.filesSkippedUnchanged >= 1

\* the steps of a run that write to the vector table
VectorPhase == {"deleteRemoved", "deleteUpdated", "add"}

IsCommitConflict(error) == Includes(error.message, "Commit conflict")

\* C27 (bounded retry): a call of the retry wrapper makes at most 3 attempts;
\* when it returns, its last attempt is its only successful one and every
\* attempt before it threw a commit conflict; when it throws, it throws the
\* error of its last attempt, every attempt before that one threw a commit
\* conflict, and the last error is no commit conflict or the attempt was the
\* third; a call that has returned or thrown makes no further attempt.
C27_AtMostThreeAttempts ==
  [][ LET call == retry' IN
      /\ call.attempts <= 3
      /\ call.pc = "returned" =>
           /\ Len(call.errors) = call.attempts - 1
           /\ \A k \in 1..Len(call.errors) : IsCommitConflict(call.errors[k])
      /\ call.pc = "failed" =>
           /\ Len(call.errors) = call.attempts
           /\ call.thrown = call.errors[call.attempts]
           /\ \A k \in 1..(call.attempts - 1) : IsCommitConflict(call.errors[k])
           /\ ~IsCommitConflict(call.thrown) \/ call.attempts = 3
      /\ (retry.pc \in {"returned", "failed"} /\ call # retry) =>
           /\ call.calls = retry.calls + 1
           /\ call.attempts = 1 /\ call.errors = <<>>
      /\ (vectors' # vectors) => (retry.pc = "attempt" /\ call.pc = "returned")
    ]_vars

\* a call returned at its third attempt, after two commit conflicts
C27_Witness ==
  /\ retry.pc = "returned"
  /\ retry.attempts = 3
  /\ Len(retry.errors) = 2
  /\ retry.errors[1] # retry.errors[2]

\* the attempts of the call that threw a commit conflict
ConflictingAttempts == { k \in 1..Len(retry.errors) : IsCommitConflict(retry.errors[k]) }

\* C28 (backoff), as claimed: the wrapper waits after every conflicting
\* attempt, 10ms after the first, 20ms after the second and 40ms after the
\* third.
C28_BackoffTenTwentyForty ==
  (retry.pc \in {"setTimeout", "returned", "failed"}) =>
    retry.delays = SubSeq(<<10, 20, 40>>, 1, Cardinality(ConflictingAttempts))

\* the composite ids of the paths the run updates and removes
PendingIds == { toVectorId(run.repoName, u.meta.path) : u \in Range(run.pendingUpdates) }
RemovedIds == { toVectorId(run.repoName, d.path) : d \in Range(run.removedRecords) }
RowsWithId(ids) == { row \in DOMAIN vectors : row.id \in ids }
\* a step that adds no row and takes away only rows of the given ids
OnlyRowsTakenAway(ids) ==
  /\ \A row \in DOMAIN vectors' : row \in DOMAIN vectors /\ vectors'[row] = vectors[row]
  /\ \A row \in DOMAIN vectors \ DOMAIN vectors' : row.id \in ids

C30_BinaryKeepsPriorIndex ==
  run.pc = "done" =>
    \A e \in Range(run.existingRecords) :
      (disk[e.path] # ABSENT /\ isBinaryBuffer(disk[e.path].prefix)) =>
        /\ run.summary.filesSkippedBinary >= 1
        /\ \A d \in Range(run.removedRecords) : d.path # e.path
        /\ \E m \in MetaOf(run.repoName, e.path) : m.id = e.id
        /\ \E f \in FtsOf(run.repoName, e.path) : f.rowid = e.id

\* C31 (force): a completed run with force=true has skipped no file as
\* unchanged, has embedded and staged every non-binary candidate in listing
\* order, so filesIndexed = filesScanned - filesSkippedBinary, and every
\* FileRecord that existed at its start for a non-binary candidate is still
\* there under the same id.
C31_ForceReindexesAll ==
  (run.pc = "done" /\ run.force) =>
    /\ run.summary.filesSkippedUnchanged = 0
    /\ run.summary.filesIndexed = run.summary.filesScanned - run.summary.filesSkippedBinary
    /\ [k \in 1..Len(run.pendingUpdates) |-> run.pendingUpdates[k].meta.path]
         = FilterSeq(run.entries, TextCandidates)
    /\ [k \in 1..Len(run.embedCalls) |-> run.embedCalls[k].path]
         = FilterSeq(run.entries, TextCandidates)
    /\ \A e \in Range(run.existingRecords) :
         e.path \in TextCandidates =>
           \E m \in MetaOf(run.repoName, e.path) :
             m.id = e.id /\ m.hash = hashBuffer(disk[e.path])

\* a forced run completed over two text files that were both indexed with the
\* hashes they have now
C31_Witness ==
  /\ run.pc = "done" /\ run.force
  /\ Len(run.existingRecords) = 2
  /\ \A e \in Range(run.existingRecords) :
       e.path \in TextCandidates /\ e.hash = hashBuffer(disk[e.path])
  /\ run.summary.filesIndexed = 2

\* the text row f holds the capped contents of the file version whose hash the
\* FileRecord m carries
SameVersion(m, f) ==
  \E v \in FileVersions : m.hash = hashBuffer(v) /\ f.contents = toContents(v)

\* C32 (text and hash of one version): in every state each TextIndexEntry
\* holds the capped contents of the file version whose hash is in the
\* FileRecord of its rowid, and once the transaction of a run has committed,
\* every updated file has its FileRecord with the staged hash and a
\* TextIndexEntry with the contents staged with it.
C32_TextMatchesHash ==
  /\ \A m \in file_meta : \A f \in file_fts : f.rowid = m.id => SameVersion(m, f)
  /\ run.pc \in VectorPhase \cup {"registry", "done"} =>
       \A u \in Range(run.pendingUpdates) :
         \E m \in MetaOf(run.repoName, u.meta.path) :
           /\ m.hash = u.meta.hash
           /\ \E f \in file_fts : f.rowid = m.id /\ f.contents = u.contents

\* a run has committed the update of a file whose text changed: the stored
\* hash is not the one the run loaded, and the text row holds the new text
C32_Witness ==
  /\ run.pc \in VectorPhase
  /\ \E u \in Range(run.pendingUpdates), e \in Range(run.existingRecords) :
       /\ u.meta.path = e.path
       /\ e.hash[2] # u.contents
       /\ \E m \in file_meta, f \in file_fts :
            m.id = e.id /\ f.rowid = e.id /\ m.hash = u.meta.hash /\ f.contents = u.contents

\* the positions of the buffer that the sniffing looks at
SampleIndices(buffer) == 1..Min(Len(buffer), SAMPLE_BYTES)

\* the claim's words taken literally: the control characters (0 to 31, and
\* 127) other than tab, line feed, vertical tab, form feed and carriage return
ControlOutsideWhitespace(byte) ==
  ((byte < 32 \/ byte = 127) /\ ~(byte \in 9..13)) \/ byte = 255

\* the bytes the code counts: 1 to 6, 14 to 31, and 255
CountedBytes == (1..6) \cup (14..31) \cup {255}

\* The claim's words taken literally (bell 7, backspace 8 and delete 127 counted
\* as control characters): violated by isBinaryBuffer on ten backspaces.
C33_LiteralControlCharacters ==
  sniff # ABSENT =>
    LET buffer == sniff.buffer
        sample == SampleIndices(buffer)
    IN  sniff.binary <=>
          /\ Len(buffer) > 0
          /\ \/ \E k \in sample : buffer[k] = 0
             \/ Cardinality({ k \in sample : ControlOutsideWhitespace(buffer[k]) }) * 10
                  > 3 * Cardinality(sample)

\* C33 (amended): isBinaryBuffer looks at the first 1024 bytes at most and returns
\* true exactly when that sample holds a null byte or when more than 30% of
\* its bytes are among 1..6, 14..31 and 255; the empty buffer is not binary,
\* and the result is that of the sampled prefix alone.
C33_BinaryBySample ==
  sniff # ABSENT =>
    LET buffer == sniff.buffer
        sample == SampleIndices(buffer)
    IN  /\ sniff.binary <=>
             /\ Len(buffer) > 0
             /\ \/ \E k \in sample : buffer[k] = 0
                \/ Cardinality({ k \in sample : buffer[k] \in CountedBytes }) * 10
                     > 3 * Cardinality(sample)
        /\ Len(buffer) = 0 => ~sniff.binary
        /\ sniff.binary = isBinaryBuffer(SubSeq(buffer, 1, Min(Len(buffer), SAMPLE_BYTES)))

\* a buffer longer than the sample whose prefix is at the 30% threshold exactly
\* and whose bytes after the sample are null was found not to be binary
C33_Witness ==
  /\ sniff # ABSENT
  /\ Len(sniff.buffer) > SAMPLE_BYTES
  /\ sniff.buffer[Len(sniff.buffer)] = 0
  /\ Cardinality({ k \in SampleIndices(sniff.buffer) : sniff.buffer[k] \in CountedBytes })
       = ThresholdCount(SAMPLE_BYTES)
  /\ ~sniff.binary

\* 1 / (1 + max(v, 0)) of a finite v = num/den, as a fraction
UnitScore(v) == IF v.num > 0 THEN Rat(v.den, v.den + v.num) ELSE One

\* C34 (normalizers on missing and non-finite values), as claimed: either
\* normalizer maps a missing or non-finite argument to exactly 0 and every
\* finite argument v to 1 / (1 + max(v, 0)).
C34_NonFiniteScoresZero ==
  normalized # ABSENT =>
    /\ ~IsFinite(normalized.argument) => normalized.score = Zero
    /\ IsFinite(normalized.argument) => normalized.score = UnitScore(normalized.argument)

\* the store writes of a run: the metadata and text tables, the vector table
\* and the registry
stores == <<file_meta, file_fts, vectors, repo_index>>

VectorRowsOfRepo(table, repo) ==
  { [row |-> row, copies |-> table[row]] : row \in { r \in DOMAIN table : r.repo = repo } }

\* C36 (isolation between repositories), as claimed: no step of a run for one
\* repository changes a FileRecord, a TextIndexEntry, a VectorEntry or the
\* registry row of another repository.
C36_OtherRepositoriesUnchanged ==
  [][ \A other \in Repos \ {run.repoName} :
        /\ { m \in file_meta' : m.repo = other } = { m \in file_meta : m.repo = other }
        /\ { f \in file_fts' : f.repo = other } = { f \in file_fts : f.repo = other }
        /\ { x \in repo_index' : x.repo = other } = { x \in repo_index : x.repo = other }
        /\ VectorRowsOfRepo(vectors', other) = VectorRowsOfRepo(vectors, other)
    ]_vars

\* C37 (summary counters): when a run has completed, filesScanned is the
\* number of listed files and equals filesIndexed + filesSkippedBinary +
\* filesSkippedUnchanged, and filesDeleted is the number of FileRecords the
\* repository had at the run's start whose path is not a non-binary file of
\* the listing.
C37_SummaryCountersAddUp ==
  run.pc = "done" =>
    /\ run.summary.filesScanned = Cardinality({ p \in Paths : disk[p] # ABSENT })
    /\ run.summary.filesScanned
         = run.summary.filesIndexed + run.summary.filesSkippedBinary
             + run.summary.filesSkippedUnchanged
    /\ run.summary.filesSkippedBinary
         = Cardinality({ p \in Paths : disk[p] # ABSENT } \ TextCandidates)
    /\ run.summary.filesDeleted
         = Cardinality({ e \in Range(run.existingRecords) : e.path \notin TextCandidates })

\* a completed run that listed two files: one is binary now and had a
\* FileRecord, which the run counted as deleted; the other was indexed or
\* skipped as unchanged
C37_Witness ==
  /\ run.pc = "done"
  /\ run.summary.filesScanned = 2
  /\ run.summary.filesSkippedBinary = 1
  /\ run.summary.filesDeleted = 1
  /\ run.summary.filesIndexed + run.summary.filesSkippedUnchanged = 1
  /\ \E e \in Range(run.existingRecords) : disk[e.path] # ABSENT /\ e.path \notin TextCandidates

\* C38 (registry source): the step that completes a run leaves one registry
\* row for the run's repository, holding the run's source whatever the row
\* held before; no other step changes the row of any repository. So the row
\* always holds the source of the repository's most recent completed run, and
\* a local run (source null) replaces a URL stored by an earlier add.
C38_SourceOfLatestRun ==
  [][ \A repo \in Repos :
        IF run'.pc = "done" /\ run.pc # "done" /\ run.repoName = repo
        THEN /\ { r.source : r \in { x \in repo_index' : x.repo = repo } } = {run.source}
             /\ Cardinality({ x \in repo_index' : x.repo = repo }) = 1
        ELSE { x \in repo_index' : x.repo = repo } = { x \in repo_index : x.repo = repo }
    ]_vars

\* a local run has completed on a repository whose registry row held the URL
\* of an add when the run started; the row's source is null now
C38_Witness ==
  /\ run.pc = "done"
  /\ run.source = NULL
  /\ run.sourceBefore = RemoteUrl
  /\ \E r \in repo_index : r.repo = run.repoName /\ r.source = NULL
  /\ ~\E r \in repo_index : r.repo = run.repoName /\ r.source = RemoteUrl

\* C39 (reset of a repository), as claimed: the transaction of resetRepoData
\* removes every FileRecord, every TextIndexEntry and the registry row of the
\* repository and leaves the rows of other repositories as they were; when
\* the call has returned, the vector table holds no row of the repository,
\* whether or not the process had set lanceTablePromise before.
C39_ResetRemovesEverything ==
  [][ reset' # reset /\ reset'.pc # "failed" /\ reset'.repo # NULL =>
        /\ \A table \in {file_meta', file_fts', repo_index'} :
             \A r \in table : r.repo # reset'.repo
        /\ WithoutRepo(file_meta', reset'.repo) = WithoutRepo(file_meta, reset'.repo)
        /\ WithoutRepo(file_fts', reset'.repo) = WithoutRepo(file_fts, reset'.repo)
        /\ WithoutRepo(repo_index', reset'.repo) = WithoutRepo(repo_index, reset'.repo)
        /\ \A other \in Repos \ {reset'.repo} :
             VectorRowsOfRepo(vectors', other) = VectorRowsOfRepo(vectors, other)
        /\ reset'.pc = "returned" => VectorRowsOfRepo(vectors', reset'.repo) = {}
    ]_vars

\* the contribution of the sub-search hits of e's file to a hybrid score
KeywordPart(e) ==
  LET k == { h \in KeywordHits : SamePath(h, e) }
  IN IF k = {} THEN Zero ELSE JsMul((CHOOSE h \in k : TRUE).keywordScore, KeywordWeight)

SemanticPart(e) ==
  LET m == { h \in SemanticHits : SamePath(h, e) }
  IN IF m = {} THEN Zero ELSE JsMul((CHOOSE h \in m : TRUE).semanticScore, SemanticWeight)

\* the file of e has a row the vector search ranks
RankedBySemantic(e) == \E row \in SemanticCandidates(search.options) : SamePath(row, e)

\* C40 (one limit for both sub-searches): when hybridSearch has fused, each
\* sub-search has returned at most limit hits (the semantic one the nearest
\* limit rows, or all rows if fewer), every returned entry is a file of a
\* keyword hit or of a semantic hit, the union before truncation has at most
\* 2*limit entries, and the score of an entry whose file a sub-search did not
\* return within its limit holds nothing from that sub-search.
C40_SameLimitForBothSubSearches ==
  HybridDone =>
    LET limit == IF "limit" \in DOMAIN search.options THEN search.options.limit
                 ELSE DEFAULT_LIMIT
    IN /\ Len(search.keyword.results) <= limit
       /\ Len(search.semantic.results)
            = Min(Cardinality(SemanticCandidates(search.options)), limit)
       /\ \A e \in Range(search.result) : \E h \in KeywordHits \cup SemanticHits : SamePath(e, h)
       /\ Len(search.combined) <= 2 * limit
       /\ \A e \in CombinedEntries :
            /\ (~\E h \in KeywordHits : SamePath(h, e)) => e.score = SemanticPart(e)
            /\ (RankedBySemantic(e) /\ ~\E h \in SemanticHits : SamePath(h, e))
                 => e.score = KeywordPart(e)

\* a hybrid search with limit 1 over three ranked rows: the two sub-searches
\* returned one hit each, of different files, so the union has 2*limit
\* entries; the keyword hit's file has a vector row that the semantic
\* sub-search ranked beyond the limit, and its entry carries the keyword part only
C40_Witness ==
  /\ HybridDone
  /\ "limit" \in DOMAIN search.options /\ search.options.limit = 1
  /\ Len(search.keyword.results) = 1
  /\ Len(search.semantic.results) = 1
  /\ Cardinality(SemanticCandidates(search.options)) > 1
  /\ Len(search.combined) = 2
  /\ Len(search.result) = 1
  /\ \E e \in CombinedEntries :
       /\ RankedBySemantic(e)
       /\ \E h \in KeywordHits : SamePath(h, e)
       /\ ~\E h \in SemanticHits : SamePath(h, e)
       /\ e.score = KeywordPart(e)
       /\ Less(Zero, e.score)

====
